---- MODULE Spec2Model ----
(***************************************************************************)
(* Model of the query builder and keyset pagination of postgresql_helper   *)
(* (schema.go: Query, its mutators, WithCursor, GetPage, PageByKeySince).   *)
(*                                                                         *)
(* Go values are modelled as follows.                                      *)
(*   string     a sequence of lexemes (TLA+ strings); "" is << >>; the     *)
(*              blank " " is a lexeme of its own, so that concatenation    *)
(*              is \o and strings.Fields can split at blanks.              *)
(*   slice      a header [arr, len] into the heap of backing arrays;       *)
(*              cap is the length of the backing array; arr = 0 has no     *)
(*              backing array (nil or empty literal).                      *)
(*   interface  a natural number, or NilValue.                             *)
(*   pointer    << >> when nil, else <<v>>.                                *)
(***************************************************************************)
EXTENDS Integers, Sequences, FiniteSets, TLC

VARIABLES
    heap,       \* backing arrays of all slices: heap[a][i] is cell i of array a
    builders,   \* the Query values the caller holds, in creation order
    last,       \* the latest builder call: [op, recv, arg]
    thr,        \* concurrent Join: per goroutine [pc, arg, q, wrote]
    rbase,      \* concurrent Join: the shared base builder
    table,      \* pagination: the rows of the (unchanging) table
    rowType,    \* pagination: the destination element type [kind, fields]
    req,        \* pagination: the latest page request
    page,       \* pagination: the PageResult (and destination) of the latest request
    trav,       \* pagination: the traversal in progress
    call,       \* GetPage in progress: [pc, dest, withCount, trips, result]
    ret,        \* GetPage: what the call returned, [returned, result, err]
    txn,        \* InTx: the database, the calls in progress and the finished ones
    mig         \* migrator: the registered list, the applied records, the latest call

vars == <<heap, builders, last, thr, rbase, table, rowType, req, page, trav, call, ret,
          txn, mig>>

builderVars == <<heap, builders, last>>
raceVars == <<thr, rbase>>
pageVars == <<table, rowType, req, page, trav>>
callVars == <<call, ret>>
sysVars == <<txn, mig>>

-----------------------------------------------------------------------------
(* Bounds *)

\* number of builder calls made after construction
MaxOps == 2
\* number of Join calls that built the starting builder
MaxBaseJoins == 3

-----------------------------------------------------------------------------
(* Go values *)

\* the nil interface value; every other interface value is a natural number
NilValue == -1

\* a nil pointer; a non-nil pointer to v is <<v>>
NilPtr == << >>

EmptyStr == << >>

SP == <<" ">>

\* a string literal of one lexeme
Lit(s) == <<s>>

NilSlice == [arr |-> 0, len |-> 0]

Cap(h, s) == IF s.arr = 0 THEN 0 ELSE Len(h[s.arr])

\* the elements of slice s: what range, len and indexing can observe
Elems(h, s) == [i \in 1..s.len |-> h[s.arr][i]]

Zeros(n, z) == [i \in 1..n |-> z]

\* a slice literal / variadic argument list: a fresh array with cap = len
MakeSlice(h, elems) ==
    IF Len(elems) = 0
    THEN [h |-> h, s |-> NilSlice]
    ELSE [h |-> Append(h, elems), s |-> [arr |-> Len(h) + 1, len |-> Len(elems)]]

\* runtime growslice for one more element: 1, then doubling (small slices)
GrowCap(oldCap) == IF oldCap = 0 THEN 1 ELSE 2 * oldCap

\* a plausible slip for comparison: append that writes at index len - 1 when
\* the backing array has room, overwriting the last element
GoAppendOverwriting(h, s, x, z) ==
    IF s.len < Cap(h, s) /\ s.len > 0
    THEN [h |-> [h EXCEPT ![s.arr][s.len] = x],
          s |-> [arr |-> s.arr, len |-> s.len]]
    ELSE LET newCap == GrowCap(Cap(h, s))
             cells == Elems(h, s) \o <<x>> \o Zeros(newCap - s.len - 1, z)
         IN [h |-> Append(h, cells),
             s |-> [arr |-> Len(h) + 1, len |-> s.len + 1]]

\* append(s, x): writes in place when the backing array has room, else
\* allocates a larger array and copies
GoAppend(h, s, x, z) ==
    IF s.len < Cap(h, s)
    THEN [h |-> [h EXCEPT ![s.arr][s.len + 1] = x],
          s |-> [arr |-> s.arr, len |-> s.len + 1]]
    ELSE LET newCap == GrowCap(Cap(h, s))
             cells == Elems(h, s) \o <<x>> \o Zeros(newCap - s.len - 1, z)
         IN [h |-> Append(h, cells),
             s |-> [arr |-> Len(h) + 1, len |-> s.len + 1]]

-----------------------------------------------------------------------------
(* Query and its mutators.  Each returns [h |-> heap after, q |-> new Query] *)

\* Table.Query(): a Query with the zero QueryConfig and nil args
NewQuery(tbl) ==
    [table |-> tbl, sel |-> NilSlice, where |-> EmptyStr, order |-> EmptyStr,
     limit |-> 0, offset |-> 0, joins |-> NilSlice, group |-> EmptyStr,
     having |-> EmptyStr, forUpdate |-> FALSE, args |-> NilSlice]

\* clone: the config is copied by value (slice headers included), args are
\* copied into a fresh array
clone(h, q) ==
    LET m == MakeSlice(h, Elems(h, q.args))
    IN [h |-> m.h, q |-> [q EXCEPT !.args = m.s]]

Select(h, q, fields) ==
    LET c == clone(h, q)
        m == MakeSlice(c.h, fields)
    IN [h |-> m.h, q |-> [c.q EXCEPT !.sel = m.s]]

Where(h, q, conditions, args) ==
    LET c == clone(h, q)
        m == MakeSlice(c.h, args)
    IN [h |-> m.h, q |-> [c.q EXCEPT !.where = conditions, !.args = m.s]]

OrderBy(h, q, fields) ==
    LET c == clone(h, q) IN [h |-> c.h, q |-> [c.q EXCEPT !.order = fields]]

\* a plausible variant for comparison: a Limit call that leaves the limit
LimitIgnored(h, q, n) == clone(h, q)

Limit(h, q, n) ==
    LET c == clone(h, q) IN [h |-> c.h, q |-> [c.q EXCEPT !.limit = n]]

Offset(h, q, n) ==
    LET c == clone(h, q) IN [h |-> c.h, q |-> [c.q EXCEPT !.offset = n]]

Join(h, q, joinClause) ==
    LET c == clone(h, q)
        a == GoAppend(c.h, c.q.joins, joinClause, EmptyStr)
    IN [h |-> a.h, q |-> [c.q EXCEPT !.joins = a.s]]

GroupBy(h, q, fields) ==
    LET c == clone(h, q) IN [h |-> c.h, q |-> [c.q EXCEPT !.group = fields]]

Having(h, q, conditions) ==
    LET c == clone(h, q) IN [h |-> c.h, q |-> [c.q EXCEPT !.having = conditions]]

ForUpdate(h, q) ==
    LET c == clone(h, q) IN [h |-> c.h, q |-> [c.q EXCEPT !.forUpdate = TRUE]]

\* what a caller can observe of a builder: its scalar fields and the
\* elements of its three slices
View(h, q) ==
    [table |-> q.table, sel |-> Elems(h, q.sel), where |-> q.where,
     order |-> q.order, limit |-> q.limit, offset |-> q.offset,
     joins |-> Elems(h, q.joins), group |-> q.group, having |-> q.having,
     forUpdate |-> q.forUpdate, args |-> Elems(h, q.args)]

-----------------------------------------------------------------------------
(* strings.Fields and strings.ToUpper on lexeme strings *)

\* strings.Fields: the maximal runs of non-blank lexemes, each run a string
RECURSIVE FieldsFrom(_, _, _)
FieldsFrom(s, cur, acc) ==
    IF s = << >>
    THEN IF cur = << >> THEN acc ELSE Append(acc, cur)
    ELSE IF Head(s) = " "
         THEN FieldsFrom(Tail(s), << >>, IF cur = << >> THEN acc ELSE Append(acc, cur))
         ELSE FieldsFrom(Tail(s), Append(cur, Head(s)), acc)

Fields(s) == FieldsFrom(s, << >>, << >>)

\* strings.ToUpper of one lexeme
UpperLex(l) ==
    CASE l = "asc" -> "ASC"
      [] l = "desc" -> "DESC"
      [] l = "id" -> "ID"
      [] l = "name" -> "NAME"
      [] l = "nulls" -> "NULLS"
      [] l = "last" -> "LAST"
      [] OTHER -> l

ToUpper(s) == [i \in 1..Len(s) |-> UpperLex(s[i])]

-----------------------------------------------------------------------------
(* WithCursor *)

\* &types.Cursor{KeyValue: keyValue, Forward: forward, Limit: limit}
Cursor(keyValue, forward, limit) ==
    <<[keyValue |-> keyValue, forward |-> forward, limit |-> limit]>>

\* fmt.Sprintf("(%s) AND (%s)", a, b)
\* a plausible variant for comparison: the new predicate put first
AndWrapNewFirst(a, b) ==
    <<"(">> \o b \o <<")", " ", "AND", " ", "(">> \o a \o <<")">>

AndWrap(a, b) == <<"(">> \o a \o <<")", " ", "AND", " ", "(">> \o b \o <<")">>

\* a plausible slip for comparison: the backward branch copied from the
\* forward branch unchanged
CompareOpForwardOnly(forward, orderDirection) ==
    IF orderDirection = <<"ASC">> THEN ">" ELSE "<"

\* the comparison operator chosen from the cursor direction and the
\* direction token of the ORDER BY fragment
CompareOp(forward, orderDirection) ==
    IF forward
    THEN IF orderDirection = <<"ASC">> THEN ">" ELSE "<"
    ELSE IF orderDirection = <<"ASC">> THEN "<" ELSE ">"

\* a plausible variant for comparison: the direction read off the last field
OrderDirectionLastField(orderBy) ==
    LET parts == Fields(orderBy)
        orderParts == IF Len(parts) < 2 THEN Append(parts, <<"ASC">>) ELSE parts
    IN ToUpper(orderParts[Len(orderParts)])

\* the direction WithCursor reads off the ORDER BY fragment: the second
\* field, upper-cased, ASC appended when there are fewer than two fields
\* (a fragment of blanks only has no second field even then: the code
\* panics; no caller of this model passes one)
OrderDirection(orderBy) ==
    LET parts == Fields(orderBy)
        orderParts == IF Len(parts) < 2 THEN Append(parts, <<"ASC">>) ELSE parts
    IN ToUpper(orderParts[2])

WithCursor(h, q, keyField, cursor) ==
    LET c == clone(h, q)
    IN IF cursor = NilPtr \/ keyField = EmptyStr THEN c
       ELSE
       LET l == IF cursor[1].limit > 0 THEN Limit(c.h, c.q, cursor[1].limit + 1) ELSE c
       IN IF cursor[1].keyValue = NilValue THEN l
          ELSE
          LET orderBy == IF l.q.order = EmptyStr
                         THEN keyField \o SP \o <<"ASC">>
                         ELSE l.q.order
              o == IF l.q.order = EmptyStr THEN OrderBy(l.h, l.q, orderBy) ELSE l
              compareOp == CompareOp(cursor[1].forward, OrderDirection(orderBy))
              whereClause == keyField \o SP \o <<compareOp>> \o SP \o <<"?">>
          IN IF o.q.where # EmptyStr
             THEN LET a == GoAppend(o.h, o.q.args, cursor[1].keyValue, NilValue)
                  IN [h |-> a.h,
                      q |-> [o.q EXCEPT !.where = AndWrap(o.q.where, whereClause),
                                        !.args = a.s]]
             ELSE LET m == MakeSlice(o.h, <<cursor[1].keyValue>>)
                  IN [h |-> m.h,
                      q |-> [o.q EXCEPT !.where = whereClause, !.args = m.s]]

-----------------------------------------------------------------------------
(* WithCompositeCursor *)

\* strings.Join
RECURSIVE JoinStrings(_, _)
JoinStrings(elems, sep) ==
    IF Len(elems) = 0 THEN EmptyStr
    ELSE IF Len(elems) = 1 THEN elems[1]
    ELSE elems[1] \o sep \o JoinStrings(Tail(elems), sep)

\* a loop appending the elements of xs one by one
RECURSIVE AppendEach(_, _, _, _)
AppendEach(h, s, xs, z) ==
    IF Len(xs) = 0 THEN [h |-> h, s |-> s]
    ELSE LET a == GoAppend(h, s, xs[1], z)
         IN AppendEach(a.h, a.s, Tail(xs), z)

\* append(s, xs...): in place when the backing array has room for all of
\* xs, else a new array of twice the capacity, or of the needed length when
\* that is larger
GoAppendSlice(h, s, xs, z) ==
    IF Len(xs) = 0 THEN [h |-> h, s |-> s]
    ELSE IF s.len + Len(xs) <= Cap(h, s)
    THEN [h |-> [h EXCEPT ![s.arr] =
                    [i \in 1..Len(@) |->
                        IF i > s.len /\ i <= s.len + Len(xs) THEN xs[i - s.len] ELSE @[i]]],
          s |-> [arr |-> s.arr, len |-> s.len + Len(xs)]]
    ELSE LET need == s.len + Len(xs)
             newCap == IF 2 * Cap(h, s) > need THEN 2 * Cap(h, s) ELSE need
             cells == Elems(h, s) \o xs \o Zeros(newCap - need, z)
         IN [h |-> Append(h, cells),
             s |-> [arr |-> Len(h) + 1, len |-> need]]

\* a non-nil *CompositeCursor; keyValues is a map from field names to values
CompositeCursor(keyValues, orderFields, forward, limit) ==
    <<[keyValues |-> keyValues, orderFields |-> orderFields,
       forward |-> forward, limit |-> limit]>>

OrderField(name, direction) == [name |-> name, direction |-> direction]

\* a plausible variant for comparison: the operator following the direction
\* of the first order field as WithCursor does
CompositeCompareOpByDirection(forward, orderFields) ==
    CompareOp(forward, ToUpper(orderFields[1].direction))

\* the comparison operator of the row comparison
CompositeCompareOp(forward, orderFields) == IF forward THEN ">" ELSE "<"

\* a plausible variant for comparison: the ORDER BY fragment left as it was
CompositeOrderByKept(orderBy, orderFields) == orderBy

\* the ORDER BY fragment of a composite cursor
CompositeOrderBy(orderBy, orderFields) ==
    JoinStrings([i \in 1..Len(orderFields) |->
                    orderFields[i].name \o SP \o orderFields[i].direction],
                <<",", " ">>)

\* a plausible variant for comparison: the values taken in reverse order
CompositeFieldValuesReversed(keyValues, orderFields) ==
    [i \in 1..Len(orderFields) |->
        LET fieldName == orderFields[Len(orderFields) + 1 - i].name
        IN IF fieldName \in DOMAIN keyValues THEN keyValues[fieldName] ELSE NilValue]

\* the bind values of a composite cursor: nil for a field without a value
CompositeFieldValues(keyValues, orderFields) ==
    [i \in 1..Len(orderFields) |->
        LET fieldName == orderFields[i].name
        IN IF fieldName \in DOMAIN keyValues THEN keyValues[fieldName] ELSE NilValue]

\* WithCompositeCursor: the receiver itself when the cursor is nil or has no
\* key values or no order fields; else a copy (config by value, args copied)
\* with the limit, ORDER BY, row comparison and bind values of the cursor
WithCompositeCursor(h, q, cursor) ==
    IF \/ cursor = NilPtr
       \/ Cardinality(DOMAIN cursor[1].keyValues) = 0
       \/ Len(cursor[1].orderFields) = 0
    THEN [h |-> h, q |-> q]
    ELSE
    LET m == MakeSlice(h, Elems(h, q.args))
        orderFields == cursor[1].orderFields
        newQuery == [q EXCEPT !.args = m.s,
                              !.limit = IF cursor[1].limit > 0 THEN cursor[1].limit + 1 ELSE @,
                              !.order = CompositeOrderBy(@, orderFields)]
        fieldNames == [i \in 1..Len(orderFields) |-> orderFields[i].name]
        fieldPlaceholders == [i \in 1..Len(orderFields) |-> <<"?">>]
        fieldValues == AppendEach(m.h, NilSlice,
                                  CompositeFieldValues(cursor[1].keyValues, orderFields),
                                  NilValue)
        compareOp == CompositeCompareOp(cursor[1].forward, orderFields)
        whereClause == <<"(">> \o JoinStrings(fieldNames, <<",", " ">>)
                       \o <<")", " ", compareOp, " ", "(">>
                       \o JoinStrings(fieldPlaceholders, <<",", " ">>) \o <<")">>
    IN IF newQuery.where # EmptyStr
       THEN LET a == GoAppendSlice(fieldValues.h, newQuery.args,
                                   Elems(fieldValues.h, fieldValues.s), NilValue)
            IN [h |-> a.h,
                q |-> [newQuery EXCEPT !.where = AndWrap(@, whereClause), !.args = a.s]]
       ELSE [h |-> fieldValues.h,
             q |-> [newQuery EXCEPT !.where = whereClause, !.args = fieldValues.s]]

-----------------------------------------------------------------------------
(* buildSelectQuery *)

\* fmt's %d
Itoa(n) == ToString(n)

\* the loop writing " " + join for each join clause
RECURSIVE WriteJoins(_)
WriteJoins(joins) ==
    IF Len(joins) = 0 THEN EmptyStr
    ELSE SP \o joins[1] \o WriteJoins(Tail(joins))

\* a plausible variant for comparison: LIMIT and OFFSET written before
\* ORDER BY
buildSelectQueryLimitFirst(h, q) ==
    <<"SELECT", " ">>
    \o (IF q.sel.len > 0 THEN JoinStrings(Elems(h, q.sel), <<",", " ">>) ELSE <<"*">>)
    \o <<" ", "FROM", " ">> \o q.table
    \o WriteJoins(Elems(h, q.joins))
    \o (IF q.where # EmptyStr THEN <<" ", "WHERE", " ">> \o q.where ELSE EmptyStr)
    \o (IF q.group # EmptyStr THEN <<" ", "GROUP", " ", "BY", " ">> \o q.group ELSE EmptyStr)
    \o (IF q.having # EmptyStr THEN <<" ", "HAVING", " ">> \o q.having ELSE EmptyStr)
    \o (IF q.limit > 0 THEN <<" ", "LIMIT", " ", Itoa(q.limit)>> ELSE EmptyStr)
    \o (IF q.offset > 0 THEN <<" ", "OFFSET", " ", Itoa(q.offset)>> ELSE EmptyStr)
    \o (IF q.order # EmptyStr THEN <<" ", "ORDER", " ", "BY", " ">> \o q.order ELSE EmptyStr)
    \o (IF q.forUpdate THEN <<" ", "FOR", " ", "UPDATE">> ELSE EmptyStr)

\* the SELECT statement of a builder; reads the builder, writes nothing
buildSelectQuery(h, q) ==
    <<"SELECT", " ">>
    \o (IF q.sel.len > 0 THEN JoinStrings(Elems(h, q.sel), <<",", " ">>) ELSE <<"*">>)
    \o <<" ", "FROM", " ">> \o q.table
    \o WriteJoins(Elems(h, q.joins))
    \o (IF q.where # EmptyStr THEN <<" ", "WHERE", " ">> \o q.where ELSE EmptyStr)
    \o (IF q.group # EmptyStr THEN <<" ", "GROUP", " ", "BY", " ">> \o q.group ELSE EmptyStr)
    \o (IF q.having # EmptyStr THEN <<" ", "HAVING", " ">> \o q.having ELSE EmptyStr)
    \o (IF q.order # EmptyStr THEN <<" ", "ORDER", " ", "BY", " ">> \o q.order ELSE EmptyStr)
    \o (IF q.limit > 0 THEN <<" ", "LIMIT", " ", Itoa(q.limit)>> ELSE EmptyStr)
    \o (IF q.offset > 0 THEN <<" ", "OFFSET", " ", Itoa(q.offset)>> ELSE EmptyStr)
    \o (IF q.forUpdate THEN <<" ", "FOR", " ", "UPDATE">> ELSE EmptyStr)

-----------------------------------------------------------------------------
(* Values of the variables a specification does not use *)

IdleBuilder == heap = << >> /\ builders = << >> /\ last = [op |-> "none"]
IdleRace == thr = << >> /\ rbase = << >>
IdlePage == table = {} /\ rowType = << >> /\ req = << >> /\ page = << >> /\ trav = << >>
IdleCall == call = << >> /\ ret = << >>
IdleTx == txn = << >>
IdleMig == mig = << >>
IdleSys == IdleTx /\ IdleMig

-----------------------------------------------------------------------------
(* The builder: a caller deriving builders from the ones it holds *)

TableName == Lit("users")

BaseJoinNames == <<"JOIN a", "JOIN b", "JOIN c", "JOIN d", "JOIN e", "JOIN f">>

\* Table.Query() followed by k Join calls, the i-th with clause names[i]
RECURSIVE ChainOf(_, _)
ChainOf(k, names) ==
    IF k = 0
    THEN [h |-> << >>, q |-> NewQuery(TableName)]
    ELSE LET b == ChainOf(k - 1, names) IN Join(b.h, b.q, names[k])

BaseChain(k) == ChainOf(k, [i \in 1..Len(BaseJoinNames) |-> Lit(BaseJoinNames[i])])

SelectArgs == {<<Lit("id")>>, <<Lit("id"), Lit("name")>>}
WhereArgs == {[cond |-> <<"age", " ", ">", " ", "?">>, args |-> <<18>>],
              [cond |-> <<"age", " ", ">", " ", "?", " ", "AND", " ", "grp", " ", "=", " ", "?">>,
               args |-> <<18, 2>>]}
OrderByArgs ==
    {<<"id">>,
     <<"id", " ", "ASC">>,
     <<"id", " ", "DESC">>,
     <<"id", " ", "desc">>,
     <<"id", " ", "asc">>,
     <<"id", " ", "DESC", ",", " ", "name", " ", "ASC">>,
     <<"id", " ", "ASC", ",", " ", "name", " ", "DESC">>,
     <<"id", " ", "DESC", " ", "NULLS", " ", "LAST">>}
LimitArgs == {10}
OffsetArgs == {20}
JoinArgs == {Lit("JOIN x"), Lit("JOIN y")}
GroupByArgs == {Lit("dept")}
HavingArgs == {<<"COUNT(*)", " ", ">", " ", "3">>}

InitBuilder ==
    /\ \E k \in 0..MaxBaseJoins :
          /\ heap = BaseChain(k).h
          /\ builders = <<BaseChain(k).q>>
    /\ last = [op |-> "Query", recv |-> 0, arg |-> << >>]

\* the caller keeps the builder a call returned
Keep(r, op, i, arg) ==
    /\ heap' = r.h
    /\ builders' = Append(builders, r.q)
    /\ last' = [op |-> op, recv |-> i, arg |-> arg]
    /\ UNCHANGED <<sysVars, raceVars, pageVars, callVars>>

MayCall == Len(builders) < MaxOps + 1

CallSelect ==
    /\ MayCall
    /\ \E i \in 1..Len(builders), x \in SelectArgs :
          Keep(Select(heap, builders[i], x), "Select", i, x)

CallWhere ==
    /\ MayCall
    /\ \E i \in 1..Len(builders), x \in WhereArgs :
          Keep(Where(heap, builders[i], x.cond, x.args), "Where", i, x)

CallOrderBy ==
    /\ MayCall
    /\ \E i \in 1..Len(builders), x \in OrderByArgs :
          Keep(OrderBy(heap, builders[i], x), "OrderBy", i, x)

CallLimit ==
    /\ MayCall
    /\ \E i \in 1..Len(builders), x \in LimitArgs :
          Keep(Limit(heap, builders[i], x), "Limit", i, x)

CallOffset ==
    /\ MayCall
    /\ \E i \in 1..Len(builders), x \in OffsetArgs :
          Keep(Offset(heap, builders[i], x), "Offset", i, x)

CallJoin ==
    /\ MayCall
    /\ \E i \in 1..Len(builders), x \in JoinArgs :
          Keep(Join(heap, builders[i], x), "Join", i, x)

CallGroupBy ==
    /\ MayCall
    /\ \E i \in 1..Len(builders), x \in GroupByArgs :
          Keep(GroupBy(heap, builders[i], x), "GroupBy", i, x)

CallHaving ==
    /\ MayCall
    /\ \E i \in 1..Len(builders), x \in HavingArgs :
          Keep(Having(heap, builders[i], x), "Having", i, x)

CallForUpdate ==
    /\ MayCall
    /\ \E i \in 1..Len(builders) :
          Keep(ForUpdate(heap, builders[i]), "ForUpdate", i, << >>)

Init == InitBuilder /\ IdleRace /\ IdleSys /\ IdlePage /\ IdleCall

Next ==
    \/ CallSelect
    \/ CallWhere
    \/ CallOrderBy
    \/ CallLimit
    \/ CallOffset
    \/ CallJoin
    \/ CallGroupBy
    \/ CallHaving
    \/ CallForUpdate

Spec == Init /\ [][Next]_vars

-----------------------------------------------------------------------------
(* Cursor application: a caller combining Where, OrderBy, Limit, WithCursor *)

KeyFieldArgs == {EmptyStr, Lit("id")}
CursorArgs ==
    {NilPtr} \cup {Cursor(kv, fwd, lim) : kv \in {NilValue, 100}, fwd \in BOOLEAN, lim \in {0, 2}}

InitCursor ==
    /\ heap = << >>
    /\ builders = <<NewQuery(TableName)>>
    /\ last = [op |-> "Query", recv |-> 0, arg |-> << >>]
    /\ IdleRace /\ IdleSys /\ IdlePage /\ IdleCall

CallWithCursor ==
    /\ MayCall
    /\ \E i \in 1..Len(builders), kf \in KeyFieldArgs, c \in CursorArgs :
          Keep(WithCursor(heap, builders[i], kf, c), "WithCursor", i,
               [keyField |-> kf, cursor |-> c])

NextCursor ==
    \/ CallWhere
    \/ CallOrderBy
    \/ CallLimit
    \/ CallWithCursor

SpecCursor == InitCursor /\ [][NextCursor]_vars

-----------------------------------------------------------------------------
(* Two goroutines calling Join on one base builder, without locking.       *)
(* Here a join clause is the two words of its string header, <<data, len>>,*)
(* which an unsynchronised store writes one after the other.               *)

Goroutines == {1, 2}

StrHeader(data, n) == <<data, n>>

RaceJoinArgs == {StrHeader("JOIN x", "6"), StrHeader("JOIN yy", "7")}

RaceBase(k) ==
    ChainOf(k, [i \in 1..Len(BaseJoinNames) |-> StrHeader(BaseJoinNames[i], "6")])

\* the cell with word k of its string header overwritten
StoreWord(cell, k, w) ==
    LET c == IF cell = EmptyStr THEN StrHeader("", "0") ELSE cell
    IN [c EXCEPT ![k] = w]

InitRace ==
    /\ \E k \in 0..MaxBaseJoins :
          /\ heap = RaceBase(k).h
          /\ rbase = RaceBase(k).q
    /\ \E a \in [Goroutines -> RaceJoinArgs] :
          thr = [t \in Goroutines |->
                    [pc |-> "call", arg |-> a[t], q |-> rbase, wrote |-> {}]]
    /\ builders = << >>
    /\ last = [op |-> "none"]
    /\ IdlePage /\ IdleCall /\ IdleSys

\* newQuery := q.clone()
RaceClone(t) ==
    /\ thr[t].pc = "call"
    /\ LET c == clone(heap, rbase)
       IN /\ heap' = c.h
          /\ thr' = [thr EXCEPT ![t].pc = "cloned", ![t].q = c.q]
    /\ UNCHANGED <<sysVars, builders, last, rbase, pageVars, callVars>>

\* append(newQuery.config.JoinClauses, joinClause) when the array is full:
\* a new array, private to this goroutine
RaceAppendGrow(t) ==
    /\ thr[t].pc = "cloned"
    /\ thr[t].q.joins.len >= Cap(heap, thr[t].q.joins)
    /\ LET a == GoAppend(heap, thr[t].q.joins, thr[t].arg, EmptyStr)
       IN /\ heap' = a.h
          /\ thr' = [thr EXCEPT ![t].pc = "return", ![t].q.joins = a.s]
    /\ UNCHANGED <<sysVars, builders, last, rbase, pageVars, callVars>>

\* append when the array has room: the store of the data word into cell len
RaceStoreData(t) ==
    /\ thr[t].pc = "cloned"
    /\ thr[t].q.joins.len < Cap(heap, thr[t].q.joins)
    /\ LET s == thr[t].q.joins
       IN /\ heap' = [heap EXCEPT ![s.arr][s.len + 1] = StoreWord(@, 1, thr[t].arg[1])]
          /\ thr' = [thr EXCEPT ![t].pc = "stored data",
                                ![t].wrote = @ \cup {<<s.arr, s.len + 1>>}]
    /\ UNCHANGED <<sysVars, builders, last, rbase, pageVars, callVars>>

\* the store of the length word, and the slice header with len + 1
RaceStoreLen(t) ==
    /\ thr[t].pc = "stored data"
    /\ LET s == thr[t].q.joins
       IN /\ heap' = [heap EXCEPT ![s.arr][s.len + 1] = StoreWord(@, 2, thr[t].arg[2])]
          /\ thr' = [thr EXCEPT ![t].pc = "return",
                                ![t].q.joins = [arr |-> s.arr, len |-> s.len + 1]]
    /\ UNCHANGED <<sysVars, builders, last, rbase, pageVars, callVars>>

\* return newQuery
RaceReturn(t) ==
    /\ thr[t].pc = "return"
    /\ thr' = [thr EXCEPT ![t].pc = "done"]
    /\ UNCHANGED <<sysVars, heap, builders, last, rbase, pageVars, callVars>>

NextRace ==
    \E t \in Goroutines :
        \/ RaceClone(t)
        \/ RaceAppendGrow(t)
        \/ RaceStoreData(t)
        \/ RaceStoreLen(t)
        \/ RaceReturn(t)

SpecRace == InitRace /\ [][NextRace]_vars

\* C3: two goroutines that call Join on the same base builder without
\* locking each obtain the child the call produces when run alone, and the
\* two calls never write the same storage cell.
C3_ConcurrentJoinIndependent ==
    /\ thr[1].wrote \cap thr[2].wrote = {}
    /\ (\A t \in Goroutines : thr[t].pc = "done") =>
          \A t \in Goroutines :
              LET alone == Join(heap, rbase, thr[t].arg)
              IN View(heap, thr[t].q) = View(alone.h, alone.q)

-----------------------------------------------------------------------------
(* The database behind GetAll and Count: it evaluates the WHERE fragment    *)
(* with the bound arguments, sorts by the ORDER BY fragment and honours     *)
(* LIMIT and OFFSET.  A row is a record of its columns id, name, grp.       *)

\* number of rows of the table
MaxRows == 4

Row(i) == [id |-> i, name |-> 20 - i, grp |-> i % 2]

NumPlaceholders(s) == Cardinality({i \in 1..Len(s) : s[i] = "?"})

\* SQL comparison; a NULL operand never satisfies it
Compare(a, op, b) ==
    /\ b # NilValue
    /\ CASE op = ">" -> a > b
         [] op = "<" -> a < b
         [] op = "=" -> a = b
         [] OTHER -> FALSE

\* the positions of the operators of the row comparisons
\* "(c1, ..., cn) op (?, ..., ?)" of predicate s
RowOps(s) ==
    {t \in 3..(Len(s) - 2) : s[t] \in {">", "<"} /\ s[t - 2] = ")" /\ s[t + 2] = "("}

\* the number of columns of the row comparison whose operator is at t
RowWidth(s, t) ==
    CHOOSE n \in 1..Len(s) :
        /\ s[t - 3 * n - 1] = "("
        /\ \A k \in 1..(n - 1) : s[t - 3 * k - 1] # "("

\* SQL row comparison: decided by the first pair of elements that differ or
\* hold a NULL; NULL there, or no such pair, never satisfies it
RowCompare(a, op, b) ==
    LET d == {k \in 1..Len(a) : b[k] = NilValue \/ a[k] # b[k]}
    IN /\ d # {}
       /\ LET k == CHOOSE x \in d : \A y \in d : x <= y
          IN Compare(a[k], op, b[k])

\* whether row satisfies predicate s, a conjunction of comparisons
\* "col op ?" (parenthesised or not): the k-th placeholder, read from left
\* to right, is bound to args[k]
Satisfies(s, args, row) ==
    \A p \in {i \in 1..Len(s) : s[i] = "?"} :
        Compare(row[s[p - 4]], s[p - 2], args[NumPlaceholders(SubSeq(s, 1, p))])

\* the same for a predicate that also holds row comparisons
SatisfiesWithRows(s, args, row) ==
    /\ \A p \in {i \in 1..Len(s) : s[i] = "?" /\ s[i - 2] \in {">", "<", "="}} :
           Compare(row[s[p - 4]], s[p - 2], args[NumPlaceholders(SubSeq(s, 1, p))])
    /\ \A t \in RowOps(s) :
           LET n == RowWidth(s, t)
           IN RowCompare([k \in 1..n |-> row[s[t - 3 * (n - k) - 3]]], s[t],
                         [k \in 1..n |-> args[NumPlaceholders(SubSeq(s, 1, t + 3 * k))]])

\* the rows of the table that satisfy the WHERE fragment of q, which may
\* hold row comparisons
MatchingWithRows(q) ==
    IF q.where = EmptyStr THEN table
    ELSE {r \in table : SatisfiesWithRows(q.where, q.args, r)}

\* the rows of the table that satisfy the WHERE fragment of q
Matching(q) ==
    IF q.where = EmptyStr THEN table
    ELSE {r \in table : Satisfies(q.where, q.args, r)}

\* rows sorted on a column of unique values: the i-th row is the one with
\* i - 1 rows before it
SortRows(S, col, desc) ==
    [i \in 1..Cardinality(S) |->
        CHOOSE r \in S :
            Cardinality({o \in S : IF desc THEN o[col] > r[col] ELSE o[col] < r[col]}) = i - 1]

\* ORDER BY as the database reads it: the first sort term, descending when
\* DESC follows the column; without ORDER BY the order is the database's
\* choice (physDesc)
SortedRows(S, order, physDesc) ==
    IF order = EmptyStr
    THEN SortRows(S, "id", physDesc)
    ELSE LET parts == Fields(order)
         IN SortRows(S, parts[1][1],
                     Len(parts) >= 2 /\ UpperLex(parts[2][1]) = "DESC")

\* SELECT ... WHERE ... ORDER BY ... LIMIT ... OFFSET ... into dest
GetAll(q, physDesc) ==
    LET sorted == SortedRows(Matching(q), q.order, physDesc)
        from == IF q.offset > 0 THEN q.offset + 1 ELSE 1
        avail == IF Len(sorted) >= from THEN Len(sorted) - from + 1 ELSE 0
        n == IF q.limit > 0 /\ q.limit < avail THEN q.limit ELSE avail
    IN SubSeq(sorted, from, from + n - 1)

\* SELECT COUNT(*) FROM table [WHERE ...]
Count(q) == Cardinality(Matching(q))

-----------------------------------------------------------------------------
(* GetPage *)

\* reflect: the first field of a slice element, or nil when the element is
\* not a struct (a pointer to a struct) or has no fields
FirstField(rt, item) ==
    IF rt.kind = "struct" /\ Len(rt.fields) > 0 THEN item[rt.fields[1]] ELSE NilValue

PageResult(data, hasNext, hasPrev, nextCursor, prevCursor, totalCount) ==
    [data |-> data, hasNext |-> hasNext, hasPrev |-> hasPrev,
     nextCursor |-> nextCursor, prevCursor |-> prevCursor, totalCount |-> totalCount]

\* q is the executed builder as View gives it, rt the destination element type
GetPage(q, rt, withCount, physDesc) ==
    LET originalLimit == q.limit
        rows == GetAll(q, physDesc)
        resultCount == Len(rows)
        hasMore == originalLimit > 0 /\ resultCount > originalLimit
        trimmed == hasMore /\ resultCount > 0
        data == IF trimmed THEN SubSeq(rows, 1, resultCount - 1) ELSE rows
        nextKey == IF trimmed THEN FirstField(rt, data[Len(data)]) ELSE NilValue
        nextCursor == IF nextKey # NilValue
                      THEN Cursor(nextKey, TRUE, originalLimit) ELSE NilPtr
        hasPrev == q.where # EmptyStr /\ resultCount > 0
        prevKey == IF hasPrev THEN FirstField(rt, data[1]) ELSE NilValue
        prevCursor == IF prevKey # NilValue
                      THEN Cursor(prevKey, FALSE, originalLimit) ELSE NilPtr
    IN PageResult(data, trimmed, hasPrev, nextCursor, prevCursor,
                  IF withCount THEN Count([q EXCEPT !.limit = 0]) ELSE 0)

-----------------------------------------------------------------------------
(* Paging: a caller that holds one base builder (builders[1]) and issues    *)
(* page requests against an unchanging table                                *)

\* number of page requests that follow a returned cursor, one after another
MaxFollow == 2

KeyField == Lit("id")
PageSizes == {1, 2}
KeyValues == 1..(MaxRows + 1)

\* the destination element types: []User-like structs with the key field
\* first or not first, and slices of pointers to them
RowTypes ==
    {[kind |-> k, fields |-> f] :
        k \in {"struct", "ptr"},
        f \in {<<"id", "name", "grp">>, <<"name", "id", "grp">>}}

BaseFilters == {EmptyStr, <<"grp", " ", "=", " ", "?">>}
BaseOrders == {EmptyStr, <<"id", " ", "ASC">>, <<"id", " ", "DESC">>}

\* Table.Query(), then Where and OrderBy when given
BaseQuery(filter, order) ==
    LET b0 == [h |-> << >>, q |-> NewQuery(TableName)]
        b1 == IF filter = EmptyStr THEN b0 ELSE Where(b0.h, b0.q, filter, <<1>>)
    IN IF order = EmptyStr THEN b1 ELSE OrderBy(b1.h, b1.q, order)

NoPage == PageResult(<< >>, FALSE, FALSE, NilPtr, NilPtr, 0)
NoTraversal == [state |-> "idle", rows |-> << >>]

InitPage ==
    /\ \E n \in 0..MaxRows : table = {Row(i) : i \in 1..n}
    /\ rowType \in RowTypes
    /\ \E f \in BaseFilters, o \in BaseOrders :
          /\ heap = BaseQuery(f, o).h
          /\ builders = <<BaseQuery(f, o).q>>
    /\ last = [op |-> "Query", recv |-> 0, arg |-> << >>]
    /\ req = [kind |-> "none"]
    /\ page = NoPage
    /\ trav = NoTraversal
    /\ IdleRace /\ IdleSys /\ IdleCall

\* base.WithCursor(keyField, cursor).GetPage(ctx, &dest, withCount)
Request(kind, cursor, L, depth) ==
    \E r \in {WithCursor(heap, builders[1], KeyField, cursor)} :
    \E q \in {View(r.h, r.q)} :
       \E withCount \in BOOLEAN,
          physDesc \in IF q.order = EmptyStr THEN BOOLEAN ELSE {FALSE} :
          /\ page' = GetPage(q, rowType, withCount, physDesc)
          /\ req' = [kind |-> kind, keyField |-> KeyField, cursor |-> cursor,
                     L |-> L, depth |-> depth, q |-> q, withCount |-> withCount]
          /\ UNCHANGED <<sysVars, heap, builders, last, table, rowType, raceVars, callVars>>

\* the caller has not yet made a request: a page depends on the table and
\* the request alone, so each behaviour follows one request and its cursors
Fresh == req.kind = "none"

PageByKeySince ==
    \E v \in KeyValues, L \in PageSizes :
        /\ Fresh
        /\ Request("since", Cursor(v, TRUE, L), L, 0)
        /\ trav' = NoTraversal

PageByKeyBefore ==
    \E v \in KeyValues, L \in PageSizes :
        /\ Fresh
        /\ Request("before", Cursor(v, FALSE, L), L, 0)
        /\ trav' = NoTraversal

\* WithCursor with a cursor the caller made, then GetPage
CursorGetPage ==
    \E v \in KeyValues \cup {NilValue}, fwd \in BOOLEAN, L \in PageSizes :
        /\ Fresh
        /\ Request("cursor", Cursor(v, fwd, L), L, 0)
        /\ trav' = NoTraversal

\* WithCursor with a cursor the previous page returned, then GetPage
FollowCursor ==
    /\ req.kind # "none"
    /\ req.depth < MaxFollow
    /\ \E c \in {page.nextCursor, page.prevCursor} :
          /\ c # NilPtr
          /\ Request("follow", c, req.L, req.depth + 1)
    /\ trav' = NoTraversal

\* a traversal starts from a forward cursor without key value
TraverseStart ==
    \E L \in PageSizes :
        /\ Fresh
        /\ Request("traverse", Cursor(NilValue, TRUE, L), L, 0)
        /\ trav' = [state |-> "running", rows |-> page'.data]

\* the caller's loop: while hasNext, re-issue with nextCursor
TraverseStep ==
    /\ trav.state = "running"
    /\ IF page.hasNext
       THEN /\ Request("traverse", page.nextCursor, req.L, req.depth + 1)
            /\ trav' = [state |-> "running", rows |-> trav.rows \o page'.data]
       ELSE /\ trav' = [trav EXCEPT !.state = "done"]
            /\ UNCHANGED <<sysVars, heap, builders, last, table, rowType, req, page, raceVars, callVars>>

NextPage ==
    \/ PageByKeySince
    \/ PageByKeyBefore
    \/ CursorGetPage
    \/ FollowCursor
    \/ TraverseStart
    \/ TraverseStep

SpecPage == InitPage /\ [][NextPage]_vars

-----------------------------------------------------------------------------
(* One GetPage call, step by step: the check of the destination, the data   *)
(* query and the count query, each query a round trip to the database that  *)
(* the database may fail                                                    *)

\* a nil error
NoError == << >>

\* the sentinel errors, by identity: package types and package
\* postgresql_helper each declare their own ErrRecordNotFound with
\* errors.New, two values with one message
TypesErrRecordNotFound == "types.ErrRecordNotFound"
HelperErrRecordNotFound == "postgresql_helper.ErrRecordNotFound"
SqlErrNoRows == "sql.ErrNoRows"

\* the text of an error of one part
ErrorText(part) ==
    CASE part \in {TypesErrRecordNotFound, HelperErrRecordNotFound} -> "record not found"
      [] part = SqlErrNoRows -> "sql: no rows in result set"
      [] OTHER -> part

\* *pq.Error values by their code, and the sentinel wrapError maps each to
PqSentinel ==
    [x \in {"pq:23505", "pq:23503", "pq:23514", "pq:23000", "pq:42501", "pq:57014"} |->
        CASE x = "pq:23505" -> "postgresql_helper.ErrUniqueViolation"
          [] x = "pq:23503" -> "postgresql_helper.ErrForeignKeyViolation"
          [] x = "pq:23514" -> "postgresql_helper.ErrCheckViolation"
          [] x = "pq:23000" -> "postgresql_helper.ErrConstraintViolation"
          [] x = "pq:42501" -> "postgresql_helper.ErrPermissionDenied"
          [] x = "pq:57014" -> "postgresql_helper.ErrQueryTimeout"]

\* the codes whose message also carries the Detail of the *pq.Error
PqWithDetail == {"pq:23505", "pq:23503", "pq:23514", "pq:23000"}

\* errors.Is: target is err or one of the errors err wraps
ErrorsIs(err, target) == \E i \in 1..Len(err) : err[i] = target

\* an error is the sequence of its parts, outermost first: the operation
\* names, and the errors wrapped with %w by identity.  A *pq.Error with a
\* known code becomes its sentinel and the operation, the no-rows error
\* becomes ErrRecordNotFound of this package and the operation (neither
\* wraps the original), any other error is wrapped after the operation
wrapError(err, operation) ==
    IF err = NoError THEN NoError
    ELSE IF \E i \in 1..Len(err) : err[i] \in DOMAIN PqSentinel
    THEN <<PqSentinel[err[CHOOSE i \in 1..Len(err) : err[i] \in DOMAIN PqSentinel]], operation>>
         \o (IF \E i \in 1..Len(err) : err[i] \in PqWithDetail THEN <<"pgErr.Detail">> ELSE << >>)
    ELSE IF ErrorsIs(err, SqlErrNoRows) THEN <<HelperErrRecordNotFound, operation>>
    ELSE <<operation>> \o err

ErrInvalidStructure == <<"invalid table structure", "destination must be a pointer to slice">>

\* what a round trip may return as its error
DbErrors == {NoError, <<"connection refused">>}

\* reflect: the kind of dest and of what it points to.  &users, &user,
\* users, a nil *[]User, and nil
Destinations ==
    {[kind |-> "ptr", elem |-> "slice"],
     [kind |-> "ptr", elem |-> "struct"],
     [kind |-> "slice", elem |-> "struct"],
     [kind |-> "ptr", elem |-> "invalid"],
     [kind |-> "invalid", elem |-> "invalid"]}

\* a plausible variant for comparison: only the pointer is checked
ValidDestinationAnyPointer(dest) == dest.kind = "ptr"

ValidDestination(dest) == ~(dest.kind # "ptr" \/ dest.elem # "slice")

Return(result, err) == [returned |-> TRUE, result |-> result, err |-> err]
NotReturned == [returned |-> FALSE, result |-> NilPtr, err |-> NoError]

\* a plausible variant for comparison: the result at hand returned along
\* with the error
ErrorReturnWithResult(result, err, operation) == Return(result, wrapError(err, operation))

\* return nil, q.wrapError(err, operation)
ErrorReturn(result, err, operation) == Return(NilPtr, wrapError(err, operation))

CallLimits == {0, 2}

NoCall == [pc |-> "idle", dest |-> [kind |-> "invalid", elem |-> "invalid"],
           withCount |-> FALSE, trips |-> << >>, result |-> NilPtr]

InitGetPage ==
    /\ \E n \in 0..MaxRows : table = {Row(i) : i \in 1..n}
    /\ rowType \in RowTypes
    /\ \E f \in BaseFilters, l \in CallLimits :
       \E b \in {BaseQuery(f, EmptyStr)} :
       \E q \in {IF l > 0 THEN Limit(b.h, b.q, l) ELSE b} :
          /\ heap = q.h
          /\ builders = <<q.q>>
    /\ last = [op |-> "Query", recv |-> 0, arg |-> << >>]
    /\ req = << >> /\ page = << >> /\ trav = << >>
    /\ call = NoCall
    /\ ret = NotReturned
    /\ IdleRace /\ IdleSys

\* GetPage up to its first round trip: the check of the destination
GetPageEnter ==
    /\ call.pc = "idle"
    /\ \E dest \in Destinations, withCount \in BOOLEAN :
          IF ~ValidDestination(dest)
          THEN /\ call' = [call EXCEPT !.pc = "done", !.dest = dest, !.withCount = withCount]
               /\ ret' = Return(NilPtr, ErrInvalidStructure)
          ELSE /\ call' = [call EXCEPT !.pc = "data", !.dest = dest, !.withCount = withCount]
               /\ ret' = ret
    /\ UNCHANGED <<sysVars, builderVars, raceVars, table, rowType, req, page, trav>>

\* the data query and what GetPage does with its outcome, up to the count
\* query or the return
GetPageData ==
    /\ call.pc = "data"
    /\ \E err \in DbErrors, physDesc \in BOOLEAN :
       \E q \in {View(heap, builders[1])} :
          LET trip == [query |-> "data", err |-> wrapError(err, "execute get all query")]
          IN IF trip.err # NoError
             THEN /\ call' = [call EXCEPT !.pc = "done", !.trips = Append(@, trip)]
                  /\ ret' = ErrorReturn(NilPtr, trip.err, "execute page query")
             ELSE \E result \in {<<GetPage(q, rowType, FALSE, physDesc)>>} :
                     IF call.withCount
                     THEN /\ call' = [call EXCEPT !.pc = "count", !.trips = Append(@, trip),
                                                  !.result = result]
                          /\ ret' = ret
                     ELSE /\ call' = [call EXCEPT !.pc = "done", !.trips = Append(@, trip),
                                                  !.result = result]
                          /\ ret' = Return(result, NoError)
    /\ UNCHANGED <<sysVars, builderVars, raceVars, table, rowType, req, page, trav>>

\* the count query, on a copy of the builder without limit, and the return
GetPageCount ==
    /\ call.pc = "count"
    /\ \E err \in DbErrors :
       \E tempQuery \in {[View(heap, builders[1]) EXCEPT !.limit = 0]} :
          LET trip == [query |-> "count", err |-> wrapError(err, "execute count query")]
          IN /\ call' = [call EXCEPT !.pc = "done", !.trips = Append(@, trip)]
             /\ ret' = IF trip.err # NoError
                       THEN ErrorReturn(call.result, trip.err, "count total records")
                       ELSE Return(<<[call.result[1] EXCEPT !.totalCount = Count(tempQuery)]>>,
                                   NoError)
    /\ UNCHANGED <<sysVars, builderVars, raceVars, table, rowType, req, page, trav>>

NextGetPage ==
    \/ GetPageEnter
    \/ GetPageData
    \/ GetPageCount

SpecGetPage == InitGetPage /\ [][NextGetPage]_vars

-----------------------------------------------------------------------------
(* Exists and Get: one call on a builder, against a table, the round trip   *)
(* free to fail                                                             *)

\* what the round trip may fail with: a plain error, a *pq.Error with a
\* code wrapError knows, and one with a code it does not know
FetchFailures == {NoError, <<"database error">>, <<"pq:57014">>, <<"pq:23505">>, <<"pq:42P01">>}

\* QueryRowContext / GetContext and Scan: the failure if the round trip
\* failed, else the first row of the result, or sql.ErrNoRows without one
QueryRow(q, physDesc, failure) ==
    IF failure # NoError THEN [row |-> NilPtr, err |-> failure]
    ELSE IF Len(GetAll(q, physDesc)) = 0 THEN [row |-> NilPtr, err |-> <<SqlErrNoRows>>]
    ELSE [row |-> <<GetAll(q, physDesc)[1]>>, err |-> NoError]

\* a plausible variant for comparison: no case for the no-rows error
ExistsResultNoRowsIsError(err) ==
    IF err # NoError
    THEN [exists |-> FALSE, err |-> wrapError(err, "exists check failed")]
    ELSE [exists |-> TRUE, err |-> NoError]

\* the switch of Exists on the error of Scan
ExistsResult(err) ==
    IF ErrorsIs(err, SqlErrNoRows) THEN [exists |-> FALSE, err |-> NoError]
    ELSE IF err # NoError
    THEN [exists |-> FALSE, err |-> wrapError(err, "exists check failed")]
    ELSE [exists |-> TRUE, err |-> NoError]

\* the query Exists runs: a clone selecting 1 with limit 1
ExistsQuery(h, q) ==
    LET tmpQuery == clone(h, q)
    IN [View(tmpQuery.h, tmpQuery.q) EXCEPT !.sel = <<Lit("1")>>, !.limit = 1]

FetchOffsets == {0, 1}

InitFetch ==
    /\ \E n \in 0..MaxRows : table = {Row(i) : i \in 1..n}
    /\ \E f \in BaseFilters, o \in FetchOffsets :
       \E b \in {BaseQuery(f, EmptyStr)} :
       \E q \in {IF o > 0 THEN Offset(b.h, b.q, o) ELSE b} :
          /\ heap = q.h
          /\ builders = <<q.q>>
    /\ last = [op |-> "Query", recv |-> 0, arg |-> << >>]
    /\ rowType = << >> /\ req = << >> /\ page = << >> /\ trav = << >>
    /\ call = NoCall
    /\ ret = NotReturned
    /\ IdleRace /\ IdleSys

\* Query.Exists
CallExists ==
    /\ call.pc = "idle"
    /\ \E failure \in FetchFailures, physDesc \in BOOLEAN :
       \E r \in {QueryRow(ExistsQuery(heap, builders[1]), physDesc, failure)} :
          /\ call' = [call EXCEPT !.pc = "Exists",
                                  !.trips = <<[query |-> "exists", err |-> r.err]>>]
          /\ ret' = Return(ExistsResult(r.err).exists, ExistsResult(r.err).err)
    /\ UNCHANGED <<sysVars, builderVars, raceVars, pageVars>>

\* Query.Get
CallGet ==
    /\ call.pc = "idle"
    /\ \E failure \in FetchFailures, physDesc \in BOOLEAN :
       \E r \in {QueryRow(View(heap, builders[1]), physDesc, failure)} :
          /\ call' = [call EXCEPT !.pc = "Get",
                                  !.trips = <<[query |-> "get", err |-> r.err]>>]
          /\ ret' = Return(r.row, wrapError(r.err, "execute get query"))
    /\ UNCHANGED <<sysVars, builderVars, raceVars, pageVars>>

NextFetch ==
    \/ CallExists
    \/ CallGet

SpecFetch == InitFetch /\ [][NextFetch]_vars

-----------------------------------------------------------------------------
(* Composite cursors: a caller applying WithCompositeCursor to a builder    *)
(* made with Where, OrderBy and Limit, against a table of MaxRows rows      *)

\* Where calls: no condition, a condition with its argument, and an
\* argument without a condition
CompositeFilters == {[cond |-> EmptyStr, args |-> << >>],
                     [cond |-> <<"name", " ", ">", " ", "?">>, args |-> <<16>>],
                     [cond |-> EmptyStr, args |-> <<7>>]}
CompositeOrders == {EmptyStr, <<"name", " ", "DESC">>}
CompositeLimits == {0, 10}

\* Table.Query() [.Where(cond, args...)] [.OrderBy(order)] [.Limit(n)]
CompositeBase(filter, order, limit) ==
    LET q0 == [h |-> << >>, q |-> NewQuery(TableName)]
        q1 == IF filter.cond = EmptyStr /\ filter.args = << >> THEN q0
              ELSE Where(q0.h, q0.q, filter.cond, filter.args)
        q2 == IF order = EmptyStr THEN q1 ELSE OrderBy(q1.h, q1.q, order)
    IN IF limit = 0 THEN q2 ELSE Limit(q2.h, q2.q, limit)

OrderFieldsArgs ==
    {<< >>,
     <<OrderField(Lit("id"), Lit("ASC"))>>,
     <<OrderField(Lit("id"), Lit("DESC"))>>,
     <<OrderField(Lit("grp"), Lit("ASC")), OrderField(Lit("id"), Lit("ASC"))>>,
     <<OrderField(Lit("grp"), Lit("DESC")), OrderField(Lit("id"), Lit("DESC"))>>,
     <<OrderField(Lit("grp"), Lit("ASC")), OrderField(Lit("id"), Lit("DESC"))>>}

KeyValuesArgs ==
    {<< >>,
     (Lit("grp") :> 0) @@ (Lit("id") :> 2),
     (Lit("grp") :> 1) @@ (Lit("id") :> 3),
     (Lit("grp") :> 1)}

CompositeCursorArgs ==
    {NilPtr} \cup {CompositeCursor(kv, of, fwd, lim) :
                       kv \in KeyValuesArgs, of \in OrderFieldsArgs,
                       fwd \in BOOLEAN, lim \in {0, 2}}

InitComposite ==
    /\ \E f \in CompositeFilters, o \in CompositeOrders, l \in CompositeLimits :
          /\ heap = CompositeBase(f, o, l).h
          /\ builders = <<CompositeBase(f, o, l).q>>
    /\ last = [op |-> "Query", recv |-> 0, arg |-> << >>]
    /\ table = {Row(i) : i \in 1..MaxRows}
    /\ rowType = << >> /\ req = << >> /\ page = << >> /\ trav = << >>
    /\ IdleRace /\ IdleSys /\ IdleCall

CallWithCompositeCursor ==
    /\ Len(builders) = 1
    /\ \E c \in CompositeCursorArgs :
          Keep(WithCompositeCursor(heap, builders[1], c), "WithCompositeCursor", 1, c)

NextComposite == CallWithCompositeCursor

SpecComposite == InitComposite /\ [][NextComposite]_vars

-----------------------------------------------------------------------------
(* Rendering: a caller that builds one builder with any subset of the       *)
(* mutators, called in an order unlike that of the clauses, and renders it  *)

MutatorNames ==
    {"Select", "Where", "OrderBy", "Limit", "Offset", "GroupBy", "Having", "ForUpdate"}

\* number of joins of the rendered builder
MaxRenderJoins == 2
\* number of times the builder is rendered
MaxRenders == 2

\* one optional call of a chain: r when the mutator is not among ops
Optional(name, ops, r, called) == IF name \in ops THEN called ELSE r

\* Table.Query() with k joins, then the mutators named in ops
InitRender ==
    /\ \E ops \in SUBSET MutatorNames, k \in 0..MaxRenderJoins :
       \E q0 \in {BaseChain(k)} :
       \E q1 \in {Optional("ForUpdate", ops, q0, ForUpdate(q0.h, q0.q))} :
       \E q2 \in {Optional("Offset", ops, q1, Offset(q1.h, q1.q, 20))} :
       \E q3 \in {Optional("Limit", ops, q2, Limit(q2.h, q2.q, 10))} :
       \E q4 \in {Optional("OrderBy", ops, q3, OrderBy(q3.h, q3.q, <<"id", " ", "DESC">>))} :
       \E q5 \in {Optional("Having", ops, q4,
                           Having(q4.h, q4.q, <<"COUNT(*)", " ", ">", " ", "3">>))} :
       \E q6 \in {Optional("GroupBy", ops, q5, GroupBy(q5.h, q5.q, Lit("dept")))} :
       \E q7 \in {Optional("Where", ops, q6,
                           Where(q6.h, q6.q, <<"age", " ", ">", " ", "?">>, <<18>>))} :
       \E q8 \in {Optional("Select", ops, q7,
                           Select(q7.h, q7.q, <<Lit("id"), Lit("name")>>))} :
          /\ heap = q8.h
          /\ builders = <<q8.q>>
    /\ last = [op |-> "Query", recv |-> 0, arg |-> << >>]
    /\ IdleRace /\ IdleSys /\ IdlePage /\ IdleCall

\* the caller renders its builder, up to MaxRenders times; arg holds the
\* text returned and the number of the call
CallBuildSelectQuery ==
    /\ \E nth \in 1..MaxRenders :
          /\ nth = IF last.op = "buildSelectQuery" THEN last.arg.nth + 1 ELSE 1
          /\ last' = [op |-> "buildSelectQuery", recv |-> 1,
                      arg |-> [text |-> buildSelectQuery(heap, builders[1]), nth |-> nth]]
    /\ UNCHANGED <<sysVars, heap, builders, raceVars, pageVars, callVars>>

NextRender == CallBuildSelectQuery

SpecRender == InitRender /\ [][NextRender]_vars

-----------------------------------------------------------------------------
(* InTx: a caller running callbacks in transactions; the callbacks write    *)
(* through Table.Insert, Update and Delete with the context they were given *)

MaxWrites == 2
MaxCalls == 2
MaxDepth == 2

\* context.Background() carries no transaction; the context InTx hands to
\* the callback carries the *sqlx.Tx, here the index of the transaction
Background == NilPtr

\* getTxFromContext: the transaction the context carries, or nil
getTxFromContext(ctx) == ctx

\* what the callback does at its end
CallbackOutcomes == {"nil", "error", "panic"}
CallbackError == <<"insufficient funds">>

\* the database: the writes every connection sees, and the transactions
\* begun so far, each "open", "committed", "rolled back" or "failed".  A
\* transaction holds no writes: no statement of the library is ever
\* executed on a *sqlx.Tx
NoTx ==
    [committed |-> {}, txs |-> << >>, log |-> << >>, stack |-> << >>, done |-> << >>]

\* t.db.ExecContext of Table.Insert, Update and Delete: t.db is the
\* *sqlx.DB, whatever the context carries; the statement runs on a pooled
\* connection and is committed on its own
TableExec(db, ctx, w) == [db EXCEPT !.committed = @ \cup {w}]

\* a plausible variant for comparison: a panic leaves the transaction alone
EndEventsPanicIgnored(outcome) ==
    IF outcome = "nil" THEN <<"commit">>
    ELSE IF outcome = "error" THEN <<"rollback">>
    ELSE << >>

\* what InTx calls on its transaction once the callback is over
EndEvents(outcome) == IF outcome = "nil" THEN <<"commit">> ELSE <<"rollback">>

\* the state of the transaction after that
EndState(outcome, commitErr) ==
    IF outcome # "nil" THEN "rolled back"
    ELSE IF commitErr = NoError THEN "committed" ELSE "failed"

\* what InTx returns
EndError(outcome, commitErr) ==
    IF outcome = "error" THEN CallbackError
    ELSE IF outcome = "nil" THEN wrapError(commitErr, "commit transaction")
    ELSE NoError

InitTx ==
    /\ txn = NoTx
    /\ IdleBuilder /\ IdleRace /\ IdlePage /\ IdleCall /\ IdleMig

\* DB.InTx with a context without transaction: BeginTxx
InTxBegin ==
    /\ txn.stack = << >>
    /\ Len(txn.done) < MaxCalls
    /\ getTxFromContext(Background) = NilPtr
    /\ \E err \in DbErrors :
          IF err # NoError
          THEN txn' = [txn EXCEPT !.done = Append(@,
                           [top |-> TRUE, began |-> FALSE, outcome |-> "not run",
                            events |-> << >>, writes |-> {}, panicked |-> FALSE,
                            err |-> wrapError(err, "begin transaction")])]
          ELSE txn' = [txn EXCEPT
                           !.txs = Append(@, "open"),
                           !.log = Append(@, [ev |-> "begin", tx |-> Len(txn.txs) + 1]),
                           !.stack = <<[top |-> TRUE, ctx |-> <<Len(txn.txs) + 1>>,
                                        events |-> <<"begin">>, writes |-> {}]>>]
    /\ UNCHANGED <<builderVars, raceVars, pageVars, callVars, mig>>

\* DB.InTx called by a callback with the context it was given
InTxNested ==
    /\ txn.stack # << >>
    /\ Len(txn.stack) < MaxDepth
    /\ Len(txn.done) + Len(txn.stack) < MaxCalls
    /\ getTxFromContext(txn.stack[Len(txn.stack)].ctx) # NilPtr
    /\ txn' = [txn EXCEPT !.stack = Append(@,
                   [top |-> FALSE, ctx |-> txn.stack[Len(txn.stack)].ctx,
                    events |-> << >>, writes |-> {}])]
    /\ UNCHANGED <<builderVars, raceVars, pageVars, callVars, mig>>

\* the callback writes: Table.Insert, Update or Delete with its context
TableWrite ==
    /\ txn.stack # << >>
    /\ \E w \in 1..MaxWrites :
          /\ \A i \in 1..Len(txn.stack) : w \notin txn.stack[i].writes
          /\ \A i \in 1..Len(txn.done) : w \notin txn.done[i].writes
          /\ \E db \in {TableExec(txn, txn.stack[Len(txn.stack)].ctx, w)} :
                txn' = [db EXCEPT !.stack =
                           [i \in 1..Len(@) |-> [@[i] EXCEPT !.writes = @ \cup {w}]]]
    /\ UNCHANGED <<builderVars, raceVars, pageVars, callVars, mig>>

\* the callback is over and InTx returns (or the panic goes on)
InTxEnd ==
    /\ txn.stack # << >>
    /\ \E outcome \in CallbackOutcomes, commitErr \in DbErrors :
       \E f \in {txn.stack[Len(txn.stack)]} :
          /\ outcome # "nil" => commitErr = NoError
          /\ ~f.top => commitErr = NoError
          /\ IF f.top
             THEN txn' = [txn EXCEPT
                     !.txs[f.ctx[1]] = EndState(outcome, commitErr),
                     !.log = @ \o [i \in 1..Len(EndEvents(outcome)) |->
                                      [ev |-> EndEvents(outcome)[i], tx |-> f.ctx[1]]],
                     !.stack = SubSeq(@, 1, Len(@) - 1),
                     !.done = Append(@,
                         [top |-> TRUE, began |-> TRUE, outcome |-> outcome,
                          events |-> f.events \o EndEvents(outcome),
                          writes |-> f.writes, panicked |-> outcome = "panic",
                          err |-> EndError(outcome, commitErr)])]
             ELSE txn' = [txn EXCEPT
                     !.stack = SubSeq(@, 1, Len(@) - 1),
                     !.done = Append(@,
                         [top |-> FALSE, began |-> FALSE, outcome |-> outcome,
                          events |-> f.events,
                          writes |-> f.writes, panicked |-> outcome = "panic",
                          err |-> IF outcome = "error" THEN CallbackError ELSE NoError])]
    /\ UNCHANGED <<builderVars, raceVars, pageVars, callVars, mig>>

NextTx ==
    \/ InTxBegin
    \/ InTxNested
    \/ TableWrite
    \/ InTxEnd

SpecTx == InitTx /\ [][NextTx]_vars

-----------------------------------------------------------------------------
(* The migrator: Register, MigrateUp, MigrateDown and MigrateDownTo on a    *)
(* migrator over a database that outlives it                                *)

MaxVersion == 2

\* math.MaxInt64, the target of MigrateUp, as far as the versions go
MaxInt64 == 2147483647

\* a migration function is nil, or succeeds, or returns an error
MigrationShapes ==
    {[UpFn |-> "ok", DownFn |-> "ok"],
     [UpFn |-> "ok", DownFn |-> "nil"],
     [UpFn |-> "ok", DownFn |-> "fail"],
     [UpFn |-> "nil", DownFn |-> "ok"],
     [UpFn |-> "fail", DownFn |-> "ok"]}

Migration(version, shape) ==
    [Version |-> version, UpFn |-> shape.UpFn, DownFn |-> shape.DownFn]

\* sort.Slice by Version, ascending (less) or descending
RECURSIVE SortMigrations(_, _)
SortMigrations(list, descending) ==
    IF list = << >> THEN << >>
    ELSE \* the element that goes first, then the others
         LET k == CHOOSE i \in 1..Len(list) :
                     \A j \in 1..Len(list) :
                        IF descending THEN list[i].Version >= list[j].Version
                        ELSE list[i].Version <= list[j].Version
         IN <<list[k]>> \o
            SortMigrations([i \in 1..(Len(list) - 1) |->
                               IF i < k THEN list[i] ELSE list[i + 1]], descending)

\* a plausible variant for comparison: the list is not sorted after the append
RegisterUnsorted(migrations, migration) ==
    IF \E i \in 1..Len(migrations) : migrations[i].Version = migration.Version
    THEN [migrations |-> migrations, err |-> <<"migration with version already exists">>]
    ELSE [migrations |-> Append(migrations, migration), err |-> NoError]

\* migrator.Register
Register(migrations, migration) ==
    IF \E i \in 1..Len(migrations) : migrations[i].Version = migration.Version
    THEN [migrations |-> migrations, err |-> <<"migration with version already exists">>]
    ELSE [migrations |-> SortMigrations(Append(migrations, migration), FALSE),
          err |-> NoError]

\* the migrations table is the sequence of its records, the versions, in
\* the order of their insertion (applied_at)

\* GetCurrentVersion: SELECT COALESCE(MAX(version), 0)
GetCurrentVersion(applied) ==
    IF applied = << >> THEN 0
    ELSE CHOOSE v \in {applied[i] : i \in 1..Len(applied)} :
            \A i \in 1..Len(applied) : applied[i] <= v

\* GetAppliedMigrations: SELECT version ... ORDER BY version
RECURSIVE GetAppliedMigrations(_)
GetAppliedMigrations(applied) ==
    IF applied = << >> THEN << >>
    ELSE LET k == CHOOSE i \in 1..Len(applied) : \A j \in 1..Len(applied) : applied[i] <= applied[j]
         IN <<applied[k]>> \o
            GetAppliedMigrations([i \in 1..(Len(applied) - 1) |->
                                     IF i < k THEN applied[i] ELSE applied[i + 1]])

\* getAppliedVersions: the set of the recorded versions
getAppliedVersions(applied) == {applied[i] : i \in 1..Len(applied)}

\* DELETE FROM schema_migrations WHERE version = $1
DeleteRecord(applied, version) == SelectSeq(applied, LAMBDA v : v # version)

MigrationResult(start, current, migrations, err) ==
    <<[StartVersion |-> start, CurrentVersion |-> current, EndVersion |-> current,
       AppliedMigrations |-> migrations, Error |-> err]>>

\* one turn of the loop of MigrateUpTo: the up function, then the record,
\* the transaction of InTx around them holding neither (see TableExec)
ApplyOne(migration, st) ==
    IF migration.UpFn = "nil" THEN st
    ELSE IF migration.UpFn = "fail"
    THEN [st EXCEPT !.ran = Append(@, <<"up", migration.Version>>),
                    !.err = <<"migration failed", "up function error">>]
    ELSE [st EXCEPT !.ran = Append(@, <<"up", migration.Version>>),
                    !.applied = Append(@, migration.Version),
                    !.done = Append(@, migration.Version),
                    !.currentVersion = migration.Version]

\* the loop of MigrateUpTo, left at the first error
RECURSIVE ApplyAll(_, _)
ApplyAll(todo, st) ==
    IF todo = << >> \/ st.err # NoError THEN st
    ELSE ApplyAll(Tail(todo), ApplyOne(Head(todo), st))

\* migrator.MigrateUpTo: [applied, ran, result, err]
MigrateUpTo(migrations, applied, targetVersion) ==
    LET currentVersion == GetCurrentVersion(applied)
        appliedVersions == getAppliedVersions(applied)
        migrationsToApply ==
            SortMigrations(
                SelectSeq(migrations, LAMBDA m :
                    /\ m.Version > currentVersion
                    /\ m.Version <= targetVersion
                    /\ m.Version \notin appliedVersions), FALSE)
        st == ApplyAll(migrationsToApply,
                  [applied |-> applied, ran |-> << >>, done |-> << >>,
                   currentVersion |-> currentVersion, err |-> NoError])
    IN [applied |-> st.applied, ran |-> st.ran, err |-> st.err,
        result |-> MigrationResult(currentVersion, st.currentVersion, st.done, st.err)]

\* migrator.MigrateUp
MigrateUp(migrations, applied) == MigrateUpTo(migrations, applied, MaxInt64)

\* one turn of the loop of MigrateDownTo: without down function the call
\* returns nil and an error; else the down function, then the deletion of
\* the record
RollbackOne(migration, st) ==
    IF migration.DownFn = "nil"
    THEN [st EXCEPT !.err = <<"has no down function">>, !.nilResult = TRUE]
    ELSE IF migration.DownFn = "fail"
    THEN [st EXCEPT !.ran = Append(@, <<"down", migration.Version>>),
                    !.err = <<"rollback migration failed", "down function error">>]
    ELSE [st EXCEPT !.ran = Append(@, <<"down", migration.Version>>),
                    !.applied = DeleteRecord(@, migration.Version),
                    !.done = Append(@, migration.Version),
                    !.currentVersion = migration.Version - 1]

\* the loop of MigrateDownTo, left at the first error
RECURSIVE RollbackAll(_, _)
RollbackAll(todo, st) ==
    IF todo = << >> \/ st.err # NoError THEN st
    ELSE RollbackAll(Tail(todo), RollbackOne(Head(todo), st))

\* the registered definitions of the applied migrations above the target,
\* newest first; an applied migration that is not registered has none
MigrationsToRollback(migrations, applied, targetVersion) ==
    SortMigrations(
        SelectSeq(migrations, LAMBDA m :
            /\ m.Version \in getAppliedVersions(applied)
            /\ m.Version > targetVersion), TRUE)

\* migrator.MigrateDownTo: [applied, ran, result, err]
MigrateDownTo(migrations, applied, targetVersion) ==
    LET currentVersion == GetCurrentVersion(applied)
        st == RollbackAll(MigrationsToRollback(migrations, applied, targetVersion),
                  [applied |-> applied, ran |-> << >>, done |-> << >>,
                   currentVersion |-> currentVersion, err |-> NoError,
                   nilResult |-> FALSE])
    IN IF applied = << >> \/ currentVersion <= targetVersion
       THEN [applied |-> applied, ran |-> << >>, err |-> NoError,
             result |-> MigrationResult(currentVersion, currentVersion, << >>, NoError)]
       ELSE IF st.nilResult
       THEN [applied |-> st.applied, ran |-> st.ran, err |-> st.err, result |-> NilPtr]
       ELSE IF st.err # NoError
       THEN [applied |-> st.applied, ran |-> st.ran, err |-> st.err,
             result |-> MigrationResult(currentVersion, st.currentVersion, st.done, st.err)]
       ELSE [applied |-> st.applied, ran |-> st.ran, err |-> NoError,
             result |-> MigrationResult(currentVersion, GetCurrentVersion(st.applied),
                                        st.done, NoError)]

\* migrator.MigrateDown
MigrateDown(migrations, applied, steps) ==
    IF steps <= 0
    THEN [applied |-> applied, ran |-> << >>, err |-> <<"invalid steps">>,
          result |-> NilPtr]
    ELSE IF applied = << >>
    THEN [applied |-> applied, ran |-> << >>, err |-> NoError,
          result |-> MigrationResult(0, 0, << >>, NoError)]
    ELSE LET appliedMigrations == GetAppliedMigrations(applied)
             targetIndex == IF Len(appliedMigrations) - steps < 0 THEN 0
                            ELSE Len(appliedMigrations) - steps
             targetVersion == IF targetIndex > 0 THEN appliedMigrations[targetIndex] ELSE 0
         IN MigrateDownTo(migrations, applied, targetVersion)

VersionArgs == 1..MaxVersion
StepsArgs == (0 - 1)..MaxVersion
TargetArgs == 0..MaxVersion

NoMigratorCall == [op |-> "none", arg |-> 0, before |-> << >>, registered |-> << >>,
                   ran |-> << >>, result |-> NilPtr, err |-> NoError]

\* NewMigrator over a database without migrations table
InitMigrate ==
    /\ mig = [migrations |-> << >>, applied |-> << >>, last |-> NoMigratorCall]
    /\ IdleBuilder /\ IdleRace /\ IdlePage /\ IdleCall /\ IdleTx

\* NewMigrator over the same database: a migrator with an empty list
CallNewMigrator ==
    /\ mig.migrations # << >>
    /\ mig' = [mig EXCEPT !.migrations = << >>,
                          !.last = [NoMigratorCall EXCEPT !.op = "NewMigrator",
                                                          !.before = mig.applied,
                                                          !.registered = mig.migrations]]
    /\ UNCHANGED <<builderVars, raceVars, pageVars, callVars, txn>>

CallRegister ==
    /\ \E version \in VersionArgs, shape \in MigrationShapes :
       \E r \in {Register(mig.migrations, Migration(version, shape))} :
          mig' = [mig EXCEPT !.migrations = r.migrations,
                             !.last = [NoMigratorCall EXCEPT !.op = "Register",
                                          !.arg = Migration(version, shape),
                                          !.before = mig.applied,
                                          !.registered = mig.migrations,
                                          !.err = r.err]]
    /\ UNCHANGED <<builderVars, raceVars, pageVars, callVars, txn>>

\* what a migration call leaves behind
Migrated(op, arg, r) ==
    [mig EXCEPT !.applied = r.applied,
                !.last = [op |-> op, arg |-> arg, before |-> mig.applied,
                          registered |-> mig.migrations,
                          ran |-> r.ran, result |-> r.result, err |-> r.err]]

CallMigrateUp ==
    /\ \E r \in {MigrateUp(mig.migrations, mig.applied)} :
          mig' = Migrated("MigrateUp", 0, r)
    /\ UNCHANGED <<builderVars, raceVars, pageVars, callVars, txn>>

CallMigrateDown ==
    /\ \E steps \in StepsArgs :
       \E r \in {MigrateDown(mig.migrations, mig.applied, steps)} :
          mig' = Migrated("MigrateDown", steps, r)
    /\ UNCHANGED <<builderVars, raceVars, pageVars, callVars, txn>>

CallMigrateDownTo ==
    /\ \E targetVersion \in TargetArgs :
       \E r \in {MigrateDownTo(mig.migrations, mig.applied, targetVersion)} :
          mig' = Migrated("MigrateDownTo", targetVersion, r)
    /\ UNCHANGED <<builderVars, raceVars, pageVars, callVars, txn>>

NextMigrate ==
    \/ CallNewMigrator
    \/ CallRegister
    \/ CallMigrateUp
    \/ CallMigrateDown
    \/ CallMigrateDownTo

SpecMigrate == InitMigrate /\ [][NextMigrate]_vars

-----------------------------------------------------------------------------
(* Claims about the builder *)

NewBuilder == builders[Len(builders)]
Receiver == builders[last.recv]
Called(op) == last.op = op /\ Len(builders) >= 2

\* the three slices of a builder as a caller observes them
Slices(h, q) == <<Elems(h, q.sel), Elems(h, q.joins), Elems(h, q.args)>>

\* C1: builders derived from a common ancestor never share mutable backing
\* storage: creating a further child leaves the select fields, join clauses
\* and arguments observed on every builder created before unchanged, and
\* the new child of a Join holds its receiver's joins plus the new clause.
C1_NoSharedStorage ==
    [][Len(builders') = Len(builders) + 1 =>
         /\ \A i \in 1..Len(builders) :
               Slices(heap', builders'[i]) = Slices(heap, builders[i])
         /\ last'.op = "Join" =>
               Elems(heap', builders'[Len(builders')].joins)
                   = Append(Elems(heap, builders[last'.recv].joins), last'.arg)]_vars

\* the change a mutator is asked to make, on the observable content
Requested(op, arg, v) ==
    CASE op = "Select" -> [v EXCEPT !.sel = arg]
      [] op = "Where" -> [v EXCEPT !.where = arg.cond, !.args = arg.args]
      [] op = "OrderBy" -> [v EXCEPT !.order = arg]
      [] op = "Limit" -> [v EXCEPT !.limit = arg]
      [] op = "Offset" -> [v EXCEPT !.offset = arg]
      [] op = "Join" -> [v EXCEPT !.joins = Append(@, arg)]
      [] op = "GroupBy" -> [v EXCEPT !.group = arg]
      [] op = "Having" -> [v EXCEPT !.having = arg]
      [] op = "ForUpdate" -> [v EXCEPT !.forUpdate = TRUE]

\* C2: every mutator returns a new builder carrying the requested change
\* and leaves every observable field of its receiver unchanged.
C2_ReceiverUnchanged ==
    [][Len(builders') = Len(builders) + 1 =>
         LET r == last'.recv
         IN /\ View(heap', builders'[r]) = View(heap, builders[r])
            /\ View(heap', builders'[Len(builders')])
                   = Requested(last'.op, last'.arg, View(heap, builders[r]))]_vars

\* C2 witness: a Join has appended in place, into the spare capacity of the
\* backing array it shares with its receiver
C2_Witness ==
    /\ Called("Join")
    /\ NewBuilder.joins.arr = Receiver.joins.arr
    /\ Receiver.joins.len >= 1
    /\ NewBuilder.joins.len = Receiver.joins.len + 1

\* the sort direction of an ORDER BY fragment of one sort term, as SQL
\* reads it (ascending unless DESC is given, keywords in either case)
OneTermOrders ==
    {EmptyStr, <<"id">>, <<"id", " ", "ASC">>, <<"id", " ", "DESC">>,
     <<"id", " ", "desc">>, <<"id", " ", "asc">>}
SqlDescending(order) == order \in {<<"id", " ", "DESC">>, <<"id", " ", "desc">>}

\* the operator of the direction table
TableOp(forward, descending) ==
    IF forward = descending THEN "<" ELSE ">"

\* a WithCursor call with a key field, a key value and a limit L > 0
CursorApplied ==
    /\ Called("WithCursor")
    /\ last.arg.keyField # EmptyStr
    /\ last.arg.cursor # NilPtr
    /\ last.arg.cursor[1].keyValue # NilValue
    /\ last.arg.cursor[1].limit > 0

\* C4: WithCursor with a key field, a non-null key value and limit L > 0
\* adds the predicate "<keyField> <op> ?" with op from the direction table
\* (ASC when the builder has no ORDER BY, which becomes "<keyField> ASC")
\* and sets the limit to L + 1.
C4_DirectionTable ==
    (CursorApplied /\ Receiver.order \in OneTermOrders) =>
        LET c == last.arg.cursor[1]
            pred == last.arg.keyField \o <<" ", TableOp(c.forward, SqlDescending(Receiver.order)), " ", "?">>
        IN /\ NewBuilder.where = IF Receiver.where = EmptyStr THEN pred
                                 ELSE AndWrap(Receiver.where, pred)
           /\ NewBuilder.limit = c.limit + 1
           /\ NewBuilder.order = IF Receiver.order = EmptyStr
                                 THEN last.arg.keyField \o <<" ", "ASC">>
                                 ELSE Receiver.order

\* C4 witness: a backward cursor applied to a builder ordered "id DESC"
\* that already has a WHERE fragment
C4_Witness ==
    /\ CursorApplied
    /\ ~last.arg.cursor[1].forward
    /\ Receiver.order = <<"id", " ", "DESC">>
    /\ NewBuilder.where = <<"id", " ", ">", " ", "?">>

\* the comparison operator of the predicate a WithCursor call added (the
\* key field is one lexeme)
UsedOp ==
    LET w == NewBuilder.where
    IN IF Receiver.where = EmptyStr THEN w[Len(w) - 2] ELSE w[Len(w) - 3]

\* the ORDER BY fragment in effect for a WithCursor call
OrderInEffect ==
    IF Receiver.order = EmptyStr THEN last.arg.keyField \o <<" ", "ASC">>
    ELSE Receiver.order

Blanks(s) == {i \in 1..Len(s) : s[i] = " "}

\* the k-th blank-delimited token of a fragment whose tokens are separated
\* by single blanks, << >> when it has fewer tokens
TokenAt(s, k) ==
    LET ends == Blanks(s) \cup {0, Len(s) + 1}
        before == {e \in ends : Cardinality({b \in ends : b < e}) = k - 1}
        after == {e \in ends : Cardinality({b \in ends : b < e}) = k}
    IN IF after = {} THEN << >>
       ELSE SubSeq(s, (CHOOSE e \in before : TRUE) + 1, (CHOOSE e \in after : TRUE) - 1)

NumTokens(s) == Cardinality(Blanks(s)) + 1

IsWord(tok, upper, lower) == tok \in {<<upper>>, <<lower>>}

\* C11 (as claimed): the direction is that of the last token of the ORDER BY
\* fragment, ASC when that token is absent or not a direction; only a
\* fragment ending in DESC resolves to DESC.
C11_LastTokenDirection ==
    CursorApplied =>
        UsedOp = TableOp(last.arg.cursor[1].forward,
                         IsWord(TokenAt(OrderInEffect, NumTokens(OrderInEffect)),
                                "DESC", "desc"))

\* C11 (amended): the direction is read off the second token of the ORDER BY
\* fragment in effect: the ASC operators are used exactly when the fragment
\* has one token or its second token is ASC (in either case), the DESC
\* operators for every other second token.
C11_SecondTokenDirection ==
    CursorApplied =>
        UsedOp = TableOp(last.arg.cursor[1].forward,
                         ~(\/ NumTokens(OrderInEffect) < 2
                           \/ IsWord(TokenAt(OrderInEffect, 2), "ASC", "asc")))

\* C11 witness: a forward cursor applied to a builder ordered
\* "id DESC, name ASC" got the DESC operator
C11_Witness ==
    /\ CursorApplied
    /\ last.arg.cursor[1].forward
    /\ Receiver.order = <<"id", " ", "DESC", ",", " ", "name", " ", "ASC">>
    /\ UsedOp = "<"

\* what a caller observes of the four parts a cursor may touch
CursorParts(q) ==
    LET v == View(heap, q)
    IN [limit |-> v.limit, where |-> v.where, args |-> v.args, order |-> v.order]

PlaceholderAt(s) == {p \in 1..Len(s) : s[p] = "?"}
ColumnOf(s, i) ==
    LET p == CHOOSE x \in PlaceholderAt(s) :
                 Cardinality({y \in PlaceholderAt(s) : y <= x}) = i
    IN s[p - 4]

\* the value each call of this specification binds to a column: Where binds
\* 18 to age and 2 to grp, the cursors bind the key value 100 to id
BoundTo(column) ==
    CASE column = "age" -> 18
      [] column = "grp" -> 2
      [] column = "id" -> 100

Aligned(q) ==
    LET v == View(heap, q)
    IN /\ Len(v.args) = Cardinality(PlaceholderAt(v.where))
       /\ \A i \in 1..Len(v.args) : v.args[i] = BoundTo(ColumnOf(v.where, i))

\* C13: when every Where call supplies one argument per placeholder, the
\* arguments of every builder are index-aligned with the placeholders of its
\* WHERE predicate and as many; a cursor predicate added to an existing
\* predicate gives "(<existing>) AND (<new>)" and the receiver's arguments
\* followed by the cursor's key value.
C13_ArgsAlignedWithPlaceholders ==
    /\ \A i \in 1..Len(builders) : Aligned(builders[i])
    /\ (CursorApplied /\ Receiver.where # EmptyStr) =>
           /\ NewBuilder.where =
                  <<"(">> \o Receiver.where \o <<")", " ", "AND", " ", "(">>
                  \o last.arg.keyField \o <<" ", UsedOp, " ", "?">> \o <<")">>
           /\ View(heap, NewBuilder).args =
                  Append(View(heap, Receiver).args, last.arg.cursor[1].keyValue)

\* C13 witness: a cursor applied to a builder with the two-placeholder
\* predicate gave three placeholders and three arguments
C13_Witness ==
    /\ CursorApplied
    /\ Cardinality(PlaceholderAt(Receiver.where)) = 2
    /\ View(heap, NewBuilder).args = <<18, 2, 100>>

-----------------------------------------------------------------------------
(* Claims about rendering *)

\* the keywords that open the clauses, in the claimed order
ClauseKeywords ==
    <<"SELECT", "FROM", "WHERE", "GROUP", "HAVING", "ORDER", "LIMIT", "OFFSET", "FOR">>

\* the position of a keyword in a text, 0 when absent
Pos(text, kw) ==
    IF \E i \in 1..Len(text) : text[i] = kw
    THEN CHOOSE i \in 1..Len(text) : text[i] = kw /\ \A j \in 1..(i - 1) : text[j] # kw
    ELSE 0

\* whether text lists the one-lexeme items separated by ", "
IsCommaList(text, items) ==
    /\ Len(text) = 3 * Len(items) - 2
    /\ \A k \in 1..Len(items) :
          /\ <<text[3 * k - 2]>> = items[k]
          /\ k < Len(items) => (text[3 * k - 1] = "," /\ text[3 * k] = " ")

\* whether text is the one-lexeme join clauses in order, a blank before each
IsJoinList(text, joins) ==
    /\ Len(text) = 2 * Len(joins)
    /\ \A k \in 1..Len(joins) : text[2 * k - 1] = " " /\ <<text[2 * k]>> = joins[k]

\* what follows the k-th keyword in its clause, for the configuration v
ClauseContent(k, text, v) ==
    CASE k = 1 -> \/ v.sel = << >> /\ text = <<" ", "*">>
                  \/ /\ v.sel # << >> /\ text[1] = " "
                     /\ IsCommaList(Tail(text), v.sel)
      [] k = 2 -> /\ SubSeq(text, 1, 2) = SP \o v.table
                  /\ IsJoinList(SubSeq(text, 3, Len(text)), v.joins)
      [] k = 3 -> text = SP \o v.where
      [] k = 4 -> text = <<" ", "BY", " ">> \o v.group
      [] k = 5 -> text = SP \o v.having
      [] k = 6 -> text = <<" ", "BY", " ">> \o v.order
      [] k = 7 -> text = <<" ", ToString(v.limit)>>
      [] k = 8 -> text = <<" ", ToString(v.offset)>>
      [] k = 9 -> text = <<" ", "UPDATE">>

\* whether the configuration v has content for the k-th clause
HasClause(k, v) ==
    CASE k \in {1, 2} -> TRUE
      [] k = 3 -> v.where # EmptyStr
      [] k = 4 -> v.group # EmptyStr
      [] k = 5 -> v.having # EmptyStr
      [] k = 6 -> v.order # EmptyStr
      [] k = 7 -> v.limit > 0
      [] k = 8 -> v.offset > 0
      [] k = 9 -> v.forUpdate

\* the text is made of the clauses of v in the claimed order, one for each
\* content v has and no other, separated by single blanks
ClausesInOrder(text, v) ==
    LET K == 1..Len(ClauseKeywords)
        at(k) == Pos(text, ClauseKeywords[k])
        endOf(k) == IF \E j \in K : j > k /\ at(j) > 0
                    THEN (CHOOSE p \in {at(j) : j \in {i \in K : i > k /\ at(i) > 0}} :
                             \A j \in K : (j > k /\ at(j) > 0) => p <= at(j)) - 2
                    ELSE Len(text)
    IN /\ at(1) = 1
       /\ \A k \in K : (at(k) > 0) <=> HasClause(k, v)
       /\ \A k \in K, j \in K : (k < j /\ at(k) > 0 /\ at(j) > 0) => at(k) < at(j)
       /\ \A k \in K : (at(k) > 1) => text[at(k) - 1] = " "
       /\ \A k \in K : (at(k) > 0) =>
              ClauseContent(k, SubSeq(text, at(k) + 1, endOf(k)), v)

\* C17: the rendered text has the clauses in the order SELECT list (or *),
\* FROM, JOINs as inserted, WHERE, GROUP BY, HAVING, ORDER BY, LIMIT, OFFSET,
\* FOR UPDATE, a clause being there exactly when its content is non-empty
\* (limit and offset above zero, for-update set); a second rendering gives
\* the same text, and rendering leaves the configuration as it was.
C17_ClausesInFixedOrder ==
    /\ [](last.op = "buildSelectQuery" =>
              ClausesInOrder(last.arg.text, View(heap, Receiver)))
    /\ [][last'.op = "buildSelectQuery" =>
              /\ View(heap', builders'[1]) = View(heap, builders[1])
              /\ last.op = "buildSelectQuery" => last'.arg.text = last.arg.text]_vars

\* C17 witness: the second rendering of a builder with every clause and two
\* joins
C17_Witness ==
    /\ last.op = "buildSelectQuery"
    /\ last.arg.nth = 2
    /\ last.arg.text =
           <<"SELECT", " ", "id", ",", " ", "name", " ", "FROM", " ", "users",
             " ", "JOIN a", " ", "JOIN b",
             " ", "WHERE", " ", "age", " ", ">", " ", "?",
             " ", "GROUP", " ", "BY", " ", "dept",
             " ", "HAVING", " ", "COUNT(*)", " ", ">", " ", "3",
             " ", "ORDER", " ", "BY", " ", "id", " ", "DESC",
             " ", "LIMIT", " ", "10", " ", "OFFSET", " ", "20",
             " ", "FOR", " ", "UPDATE">>

-----------------------------------------------------------------------------
(* Claims about composite cursors *)

\* a WithCompositeCursor call whose cursor has key values and order fields
CompositeApplied ==
    /\ Called("WithCompositeCursor")
    /\ last.arg # NilPtr
    /\ DOMAIN last.arg[1].keyValues # {}
    /\ Len(last.arg[1].orderFields) > 0

\* whether text is "<name1> <dir1>, ..., <namen> <dirn>" for the order
\* fields: the k-th pair starts at lexeme 5(k - 1) + 1
IsOrderList(text, orderFields) ==
    LET n == Len(orderFields)
    IN /\ Len(text) = 5 * n - 2
       /\ \A k \in 1..n :
             /\ <<text[5 * k - 4]>> = orderFields[k].name
             /\ text[5 * k - 3] = " "
             /\ <<text[5 * k - 2]>> = orderFields[k].direction
             /\ k < n => (text[5 * k - 1] = "," /\ text[5 * k] = " ")

\* C14: WithCompositeCursor with key values and order fields replaces the
\* ORDER BY with the comma-joined "<name> <direction>" pairs of the order
\* fields in their order, and sets the limit to cursor.limit + 1 when
\* cursor.limit > 0, leaving it as the receiver's otherwise.
C14_CompositeOrderAndLimit ==
    CompositeApplied =>
        /\ IsOrderList(NewBuilder.order, last.arg[1].orderFields)
        /\ NewBuilder.limit = IF last.arg[1].limit > 0 THEN last.arg[1].limit + 1
                              ELSE Receiver.limit

\* C14 witness: a two-field cursor of limit 2 applied to a builder ordered
\* by name with limit 10
C14_Witness ==
    /\ CompositeApplied
    /\ Receiver.order = <<"name", " ", "DESC">>
    /\ Receiver.limit = 10
    /\ last.arg[1].limit = 2
    /\ NewBuilder.limit = 3
    /\ NewBuilder.order = <<"grp", " ", "ASC", ",", " ", "id", " ", "ASC">>

\* whether text is "(<name1>, ..., <namen>) <op> (?, ..., ?)" for the order
\* fields
IsRowPredicate(text, orderFields, op) ==
    LET n == Len(orderFields)
    IN /\ Len(text) = 6 * n + 3
       /\ text[1] = "(" /\ text[3 * n] = ")"
       /\ SubSeq(text, 3 * n + 1, 3 * n + 4) = <<" ", op, " ", "(">>
       /\ text[6 * n + 3] = ")"
       /\ \A k \in 1..n :
             /\ <<text[3 * k - 1]>> = orderFields[k].name
             /\ text[3 * n + 3 * k + 2] = "?"
             /\ k < n => /\ text[3 * k] = "," /\ text[3 * k + 1] = " "
                         /\ text[3 * n + 3 * k + 3] = ","
                         /\ text[3 * n + 3 * k + 4] = " "

\* the row comparison a WithCompositeCursor call added to the WHERE
AddedPredicate ==
    LET w == NewBuilder.where
    IN IF Receiver.where = EmptyStr THEN w
       ELSE SubSeq(w, Len(Receiver.where) + 7, Len(w) - 1)

\* the bind values of the cursor of the last call, by the claim's words:
\* the i-th is the key value of the i-th order field, or null
CursorValues ==
    LET cursor == last.arg[1]
    IN [i \in 1..Len(cursor.orderFields) |->
           IF cursor.orderFields[i].name \in DOMAIN cursor.keyValues
           THEN cursor.keyValues[cursor.orderFields[i].name]
           ELSE NilValue]

\* the text part of C15: the row comparison "(f1, ..., fn) op (?, ..., ?)"
\* over the order fields in their order, op being > for a forward cursor and
\* < for a backward one whatever the directions; an existing WHERE is kept
\* as "(<existing>) AND (<row comparison>)"
RowPredicateAdded ==
    /\ IsRowPredicate(AddedPredicate, last.arg[1].orderFields,
                      IF last.arg[1].forward THEN ">" ELSE "<")
    /\ Receiver.where # EmptyStr =>
           /\ SubSeq(NewBuilder.where, 1, Len(Receiver.where) + 6) =
                  <<"(">> \o Receiver.where \o <<")", " ", "AND", " ", "(">>
           /\ NewBuilder.where[Len(NewBuilder.where)] = ")"

\* C15 (as claimed): WithCompositeCursor builds the row comparison over the
\* order fields, keeps an existing WHERE as "(<existing>) AND (<row
\* comparison>)", and appends exactly n bind values after the receiver's
\* arguments, the i-th being the key value of fi, or null when the map has
\* none.
C15_ValuesAlwaysAppended ==
    CompositeApplied =>
        /\ RowPredicateAdded
        /\ View(heap, NewBuilder).args = View(heap, Receiver).args \o CursorValues

\* C15 (amended): as claimed when the receiver has a WHERE; when it has
\* none, the row comparison becomes the WHERE and the n bind values become
\* the arguments, replacing any the receiver held.
C15_CompositeRowPredicate ==
    CompositeApplied =>
        /\ RowPredicateAdded
        /\ View(heap, NewBuilder).args =
               IF Receiver.where # EmptyStr
               THEN View(heap, Receiver).args \o CursorValues
               ELSE CursorValues

\* C15 witness: a forward cursor over (grp DESC, id DESC) with a value for
\* grp only, applied to a builder with a predicate and its argument
C15_Witness ==
    /\ CompositeApplied
    /\ last.arg[1].forward
    /\ NewBuilder.where =
           <<"(", "name", " ", ">", " ", "?", ")", " ", "AND", " ", "(",
             "(", "grp", ",", " ", "id", ")", " ", ">", " ", "(", "?", ",", " ", "?", ")",
             ")">>
    /\ NewBuilder.order = <<"grp", " ", "DESC", ",", " ", "id", " ", "DESC">>
    /\ View(heap, NewBuilder).args = <<16, 1, NilValue>>

\* the k-th sort term of an ORDER BY fragment "<name> <dir>, ..."
SortColumn(order, k) == order[5 * k - 4]
SortDescending(order, k) == order[5 * k - 2] = "DESC"

\* whether row comes after the position pos (a map from column names to
\* values) in the order of the ORDER BY fragment: at the first sort term
\* where they differ, row has the later value
ComesAfter(row, pos, order) ==
    \E k \in 1..((Len(order) + 2) \div 5) :
        /\ \A j \in 1..(k - 1) : row[SortColumn(order, j)] = pos[<<SortColumn(order, j)>>]
        /\ IF SortDescending(order, k)
           THEN row[SortColumn(order, k)] < pos[<<SortColumn(order, k)>>]
           ELSE row[SortColumn(order, k)] > pos[<<SortColumn(order, k)>>]

ComesBefore(row, pos, order) ==
    \E k \in 1..((Len(order) + 2) \div 5) :
        /\ \A j \in 1..(k - 1) : row[SortColumn(order, j)] = pos[<<SortColumn(order, j)>>]
        /\ IF SortDescending(order, k)
           THEN row[SortColumn(order, k)] > pos[<<SortColumn(order, k)>>]
           ELSE row[SortColumn(order, k)] < pos[<<SortColumn(order, k)>>]

\* a composite cursor with a value for every order field, all of one direction
UniformCursor ==
    /\ CompositeApplied
    /\ \A i \in 1..Len(last.arg[1].orderFields) :
          /\ last.arg[1].orderFields[i].name \in DOMAIN last.arg[1].keyValues
          /\ last.arg[1].orderFields[i].direction = last.arg[1].orderFields[1].direction

\* C16: when all order fields have one direction, the rows the new builder
\* selects are, for a forward cursor, exactly the receiver's rows after the
\* cursor position in the rendered ORDER BY, and for a backward cursor
\* exactly those before it.
C16_UniformDirectionPages ==
    UniformCursor =>
        MatchingWithRows(View(heap, NewBuilder)) =
            {r \in MatchingWithRows(View(heap, Receiver)) :
                IF last.arg[1].forward
                THEN ComesAfter(r, last.arg[1].keyValues, NewBuilder.order)
                ELSE ComesBefore(r, last.arg[1].keyValues, NewBuilder.order)}

\* the same for ascending order fields only
C16_AscendingOnly ==
    (UniformCursor /\ last.arg[1].orderFields[1].direction = Lit("ASC")) =>
        MatchingWithRows(View(heap, NewBuilder)) =
            {r \in MatchingWithRows(View(heap, Receiver)) :
                IF last.arg[1].forward
                THEN ComesAfter(r, last.arg[1].keyValues, NewBuilder.order)
                ELSE ComesBefore(r, last.arg[1].keyValues, NewBuilder.order)}

-----------------------------------------------------------------------------
(* Claims about paging *)

Base == View(heap, builders[1])

Min(a, b) == IF a < b THEN a ELSE b

\* a page request made through the cursor path with a cursor of the caller
CursorPathRequest == req.kind \in {"since", "before", "cursor"} /\ req.L > 0

\* C5: for a page fetched through the cursor path with page size L > 0,
\* hasNext is true exactly when more than L rows match the executed predicate.
C5_HasNextIffMoreRows ==
    CursorPathRequest => (page.hasNext <=> Count(req.q) > req.L)

\* C6: after such a request the destination holds exactly
\* min(L, number of matching rows) rows.
C6_PageHoldsAtMostL ==
    CursorPathRequest => Len(page.data) = Min(req.L, Count(req.q))

\* C7: with ORDER BY on the unique key, a traversal from a forward cursor
\* without key value that follows nextCursor while hasNext ends with every
\* matching row exactly once, in sort order.
C7_TraversalComplete ==
    (trav.state = "done" /\ Base.order # EmptyStr) =>
        trav.rows = SortedRows(Matching(Base), Base.order, FALSE)

\* the last n elements of a sequence
LastN(seq, n) == SubSeq(seq, Len(seq) - Min(n, Len(seq)) + 1, Len(seq))

\* C8: with ORDER BY id ASC and page size L, a backward request with key
\* value v returns the rows immediately preceding v: the L greatest keys
\* below v, in sort order.
C8_BackwardPagePrecedes ==
    (/\ req.kind \in {"before", "cursor"}
     /\ ~req.cursor[1].forward
     /\ req.cursor[1].keyValue # NilValue
     /\ Base.order = <<"id", " ", "ASC">>) =>
        LET below == {r \in Matching(Base) : r.id < req.cursor[1].keyValue}
        IN page.data = LastN(SortRows(below, "id", FALSE), req.L)

\* C9: every cursor GetPage returns for a request with page size L carries
\* limit = L, and every request of a chain executes LIMIT L + 1.
C9_CursorKeepsPageSize ==
    req.kind # "none" =>
        /\ page.nextCursor # NilPtr => page.nextCursor[1].limit = req.L
        /\ page.prevCursor # NilPtr => page.prevCursor[1].limit = req.L
        /\ req.q.limit = req.L + 1

\* C10: the key value of nextCursor (prevCursor) is the value of the
\* pagination key field in the last (first) row of the page, whatever
\* position that field has in the row type.
C10_CursorKeyIsKeyField ==
    req.kind # "none" =>
        /\ page.nextCursor # NilPtr =>
              page.nextCursor[1].keyValue = page.data[Len(page.data)][req.keyField[1]]
        /\ page.prevCursor # NilPtr =>
              page.prevCursor[1].keyValue = page.data[1][req.keyField[1]]


\* C18: hasPrev is true exactly when the executed builder has a WHERE
\* fragment and the data query returned at least one row; then prevCursor
\* is there, points backward and holds a value of the first row of the
\* page; otherwise there is no prevCursor.
C18_HasPrevWithCursor ==
    req.kind # "none" =>
        /\ page.hasPrev <=> (req.q.where # EmptyStr /\ (Len(page.data) > 0 \/ page.hasNext))
        /\ page.hasPrev =>
              /\ page.prevCursor # NilPtr
              /\ ~page.prevCursor[1].forward
              /\ \E c \in DOMAIN page.data[1] : page.prevCursor[1].keyValue = page.data[1][c]
        /\ ~page.hasPrev => page.prevCursor = NilPtr

\* the same for destinations whose elements are structs
C18_StructRowsOnly ==
    (req.kind # "none" /\ rowType.kind = "struct") => C18_HasPrevWithCursor


-----------------------------------------------------------------------------
(* Claims about one GetPage call *)

PointerToSlice(dest) == dest.kind = "ptr" /\ dest.elem = "slice"

Succeeded(trip) == trip.err = NoError

\* C19: the round trips of one GetPage call are: none when the destination
\* is not a pointer to a slice, the call failing with the invalid-argument
\* error; otherwise the data query first and, only if it succeeded and
\* withCount is set, one count query after it; never more than two, and a
\* failed round trip is the last.
C19_RoundTripSequence ==
    LET trips == call.trips
        n == Len(trips)
    IN /\ n <= 2
       /\ \A i \in 1..n : trips[i].query = <<"data", "count">>[i]
       /\ \A i \in 1..(n - 1) : Succeeded(trips[i])
       /\ n = 2 => call.withCount
       /\ (call.pc # "idle" /\ ~PointerToSlice(call.dest)) =>
              /\ n = 0
              /\ ret.returned /\ ret.err = ErrInvalidStructure
       /\ (call.pc = "done" /\ PointerToSlice(call.dest)) =>
              n = IF Succeeded(trips[1]) /\ call.withCount THEN 2 ELSE 1

\* C19 witness: a call with withCount set that made both round trips
C19_Witness ==
    /\ call.pc = "done"
    /\ call.withCount
    /\ Len(call.trips) = 2
    /\ Succeeded(call.trips[2])

\* C20: GetPage returns either a PageResult and no error or an error and no
\* PageResult: an error and no PageResult when the data query fails, and
\* when the data query succeeds and the count query fails; a PageResult and
\* no error when no round trip failed.
C20_ResultOrError ==
    ret.returned =>
        /\ (ret.result # NilPtr) <=> (ret.err = NoError)
        /\ (\E i \in 1..Len(call.trips) : ~Succeeded(call.trips[i])) =>
               (ret.result = NilPtr /\ ret.err # NoError)
        /\ (/\ PointerToSlice(call.dest)
            /\ \A i \in 1..Len(call.trips) : Succeeded(call.trips[i])) =>
               (ret.result # NilPtr /\ ret.err = NoError)

\* C20 witness: the data query returned rows, the count query failed, and
\* the call returned the error alone
C20_Witness ==
    /\ ret.returned
    /\ Len(call.trips) = 2
    /\ Succeeded(call.trips[1])
    /\ ~Succeeded(call.trips[2])
    /\ Len(call.result[1].data) > 0
    /\ ret.result = NilPtr
    /\ ret.err = <<"count total records", "execute count query", "connection refused">>


-----------------------------------------------------------------------------
(* Claims about Exists and Get *)

\* the rows the builder's query yields: those matching its WHERE, past its
\* offset
Yields(q) == Count(q) > q.offset

\* C21: Exists returns (true, no error) when the query yields a row,
\* (false, no error) when the database reports the no-rows condition, and
\* (false, an error naming "exists check failed") for any other failure;
\* never true together with an error.
C21_ExistsOutcomes ==
    call.pc = "Exists" =>
        LET scanned == call.trips[1].err
        IN /\ scanned = NoError => (ret.result = TRUE /\ ret.err = NoError)
           /\ scanned = <<SqlErrNoRows>> => (ret.result = FALSE /\ ret.err = NoError)
           /\ scanned \notin {NoError, <<SqlErrNoRows>>} =>
                  /\ ret.result = FALSE
                  /\ \E i \in 1..Len(ret.err) : ret.err[i] = "exists check failed"
           /\ ~(ret.result = TRUE /\ ret.err # NoError)
           /\ (scanned = NoError) => Yields(View(heap, builders[1]))
           /\ (scanned = <<SqlErrNoRows>>) => ~Yields(View(heap, builders[1]))

\* C21 witness: Exists on a builder whose filter no row passes
C21_Witness ==
    /\ call.pc = "Exists"
    /\ table # {}
    /\ builders[1].where # EmptyStr
    /\ call.trips[1].err = <<SqlErrNoRows>>
    /\ ret.result = FALSE
    /\ ret.err = NoError

\* C22: when Get finds no matching row its error matches the sentinel
\* types.ErrRecordNotFound under errors.Is and names the operation
\* "execute get query"; any other failure gives an error that does not
\* match that sentinel.
C22_GetNotFoundMatchesSentinel ==
    call.pc = "Get" =>
        LET scanned == call.trips[1].err
        IN /\ scanned = <<SqlErrNoRows>> =>
                  /\ ErrorsIs(ret.err, TypesErrRecordNotFound)
                  /\ \E i \in 1..Len(ret.err) : ret.err[i] = "execute get query"
           /\ scanned \notin {NoError, <<SqlErrNoRows>>} =>
                  /\ ret.err # NoError
                  /\ ~ErrorsIs(ret.err, TypesErrRecordNotFound)

\* the same with the sentinel of package postgresql_helper, which has the
\* same text
C22_MatchesHelperSentinel ==
    call.pc = "Get" =>
        LET scanned == call.trips[1].err
        IN /\ scanned = <<SqlErrNoRows>> =>
                  /\ ErrorsIs(ret.err, HelperErrRecordNotFound)
                  /\ ErrorText(ret.err[1]) = ErrorText(TypesErrRecordNotFound)
                  /\ \E i \in 1..Len(ret.err) : ret.err[i] = "execute get query"
           /\ scanned \notin {NoError, <<SqlErrNoRows>>} =>
                  /\ ret.err # NoError
                  /\ ~ErrorsIs(ret.err, HelperErrRecordNotFound)


-----------------------------------------------------------------------------
(* Claims about InTx *)

\* the events of transaction t, in order
EventsOf(t) == SelectSeq(txn.log, LAMBDA e : e.tx = t)

\* C23: the writes a callback of InTx makes through the library with its
\* context belong to the transaction: none is visible before the
\* transaction ends, none is visible after a callback that returned an
\* error, all are visible after a callback that returned nil and a commit
\* that succeeded.
C23_WritesBelongToTransaction ==
    txn # << >> =>
        /\ \A i \in 1..Len(txn.stack) : txn.stack[i].writes \cap txn.committed = {}
        /\ \A i \in 1..Len(txn.done) :
              LET d == txn.done[i]
              IN (d.top /\ d.began) =>
                    /\ d.outcome = "error" => d.writes \cap txn.committed = {}
                    /\ (d.outcome = "nil" /\ d.err = NoError) => d.writes \subseteq txn.committed

\* C26: a top-level InTx call begins one transaction and ends it once, by
\* commit exactly when the callback returned nil, by rollback when it
\* returned an error or panicked, the panic going on; a call with a context
\* carrying a transaction runs its callback and begins, commits and rolls
\* back nothing.  A top-level call whose BeginTxx failed does not run the
\* callback and returns the error of "begin transaction".
C26_InTxProtocol ==
    txn # << >> =>
        /\ \A i \in 1..Len(txn.done) :
              LET d == txn.done[i]
              IN /\ (d.top /\ d.began) =>
                        /\ d.outcome = "nil" <=> d.events = <<"begin", "commit">>
                        /\ d.outcome \in {"error", "panic"} <=> d.events = <<"begin", "rollback">>
                        /\ d.outcome = "panic" <=> d.panicked
                        /\ d.outcome = "error" => d.err = CallbackError
                 /\ (d.top /\ ~d.began) =>
                        /\ d.events = << >>
                        /\ d.outcome = "not run"
                        /\ d.writes = {}
                        /\ d.err # NoError /\ d.err[1] = "begin transaction"
                 /\ ~d.top =>
                        /\ d.events = << >>
                        /\ d.outcome \in CallbackOutcomes
                        /\ d.outcome = "panic" <=> d.panicked
        /\ \A t \in 1..Len(txn.txs) :
              /\ EventsOf(t) \in {<<[ev |-> "begin", tx |-> t]>>,
                                  <<[ev |-> "begin", tx |-> t], [ev |-> "commit", tx |-> t]>>,
                                  <<[ev |-> "begin", tx |-> t], [ev |-> "rollback", tx |-> t]>>}
              /\ Len(EventsOf(t)) = 1 <=> txn.txs[t] = "open"
              /\ txn.txs[t] = "open" <=> (txn.stack # << >> /\ txn.stack[1].ctx = <<t>>)
        /\ Len(txn.log) = Len(txn.txs) + Cardinality({t \in 1..Len(txn.txs) : txn.txs[t] # "open"})

\* C26 witness: a callback that ran a nested InTx call panicked, and the
\* top-level call rolled back and let the panic go on
C26_Witness ==
    /\ txn # << >>
    /\ Len(txn.done) = 2
    /\ ~txn.done[1].top /\ txn.done[1].outcome = "nil"
    /\ txn.done[2].top /\ txn.done[2].panicked
    /\ txn.log = <<[ev |-> "begin", tx |-> 1], [ev |-> "rollback", tx |-> 1]>>


-----------------------------------------------------------------------------
(* Claims about the migrator *)

SetOf(seq) == {seq[i] : i \in 1..Len(seq)}

\* the versions the latest call ran a function of, in order
RanVersions == [i \in 1..Len(mig.last.ran) |-> mig.last.ran[i][2]]

Ascending(seq) == \A i, j \in 1..Len(seq) : i < j => seq[i] < seq[j]
Descending(seq) == \A i, j \in 1..Len(seq) : i < j => seq[i] > seq[j]

\* the registered migrations with an up function that the call found
\* without record
Pending ==
    {mig.last.registered[i].Version : i \in
        {j \in 1..Len(mig.last.registered) :
            /\ mig.last.registered[j].UpFn # "nil"
            /\ mig.last.registered[j].Version \notin SetOf(mig.last.before)}}

\* MigrateUp ran the up function of each of the given versions once, in
\* ascending order, and of no other, and recorded each
AppliedExactly(versions) ==
    /\ SetOf(RanVersions) = versions
    /\ Len(RanVersions) = Cardinality(versions)
    /\ Ascending(RanVersions)
    /\ \A i \in 1..Len(mig.last.ran) : mig.last.ran[i][1] = "up"
    /\ mig.applied = mig.last.before \o RanVersions

\* C24: MigrateUp runs every registered migration with an up function and
\* without record exactly once, in ascending version order, and records
\* it, also one whose version is below the highest applied version; the
\* result's CurrentVersion and EndVersion are the highest applied version.
C24_MigrateUpAppliesAllPending ==
    (mig.last.op = "MigrateUp" /\ mig.last.err = NoError) =>
        /\ AppliedExactly(Pending)
        /\ mig.last.result[1].CurrentVersion = GetCurrentVersion(mig.applied)
        /\ mig.last.result[1].EndVersion = GetCurrentVersion(mig.applied)

\* the same for the pending migrations above the highest applied version,
\* the others being left alone
C24_AboveCurrentOnly ==
    (mig.last.op = "MigrateUp" /\ mig.last.err = NoError) =>
        /\ AppliedExactly({v \in Pending : v > GetCurrentVersion(mig.last.before)})
        /\ mig.last.result[1].CurrentVersion = GetCurrentVersion(mig.applied)
        /\ mig.last.result[1].EndVersion = GetCurrentVersion(mig.applied)

\* the n records inserted last, the latest first
RECURSIVE NewestFirst(_, _)
NewestFirst(applied, n) ==
    IF n = 0 \/ applied = << >> THEN << >>
    ELSE <<applied[Len(applied)]>> \o NewestFirst(SubSeq(applied, 1, Len(applied) - 1), n - 1)

\* the call ran the down function of each of the given versions, in this
\* order, deleted their records and left the other records
RolledBackExactly(versions) ==
    /\ RanVersions = versions
    /\ \A i \in 1..Len(mig.last.ran) : mig.last.ran[i][1] = "down"
    /\ mig.applied = SelectSeq(mig.last.before, LAMBDA v : v \notin SetOf(versions))

\* C25: MigrateDown(steps) with steps > 0 rolls back the min(steps, number
\* applied) most recently applied migrations, newest first, each by its
\* down function and the deletion of its record, and leaves the older
\* ones; with steps <= 0 it returns an error and changes nothing.
C25_MigrateDownSteps ==
    mig.last.op = "MigrateDown" =>
        /\ mig.last.arg <= 0 =>
              /\ mig.last.err # NoError
              /\ mig.last.ran = << >>
              /\ mig.applied = mig.last.before
        /\ (mig.last.arg > 0 /\ mig.last.err = NoError) =>
              RolledBackExactly(NewestFirst(mig.last.before,
                                    Min(mig.last.arg, Len(mig.last.before))))

\* every record the call found belongs to a registered migration
AllRegistered ==
    SetOf(mig.last.before) \subseteq
        {mig.last.registered[i].Version : i \in 1..Len(mig.last.registered)}

\* the same for a migrator that has every applied migration registered
C25_RegisteredOnly ==
    (mig.last.op = "MigrateDown" /\ AllRegistered) =>
        /\ mig.last.arg <= 0 =>
              /\ mig.last.err # NoError
              /\ mig.last.ran = << >>
              /\ mig.applied = mig.last.before
        /\ (mig.last.arg > 0 /\ mig.last.err = NoError) =>
              RolledBackExactly(NewestFirst(mig.last.before,
                                    Min(mig.last.arg, Len(mig.last.before))))

\* the versions whose record the latest call deleted
RolledBack == SetOf(mig.last.before) \ SetOf(mig.applied)

\* C27: when MigrateDownTo(targetVersion) returns without error the
\* current version is at most targetVersion and no migration with a
\* version at most targetVersion was rolled back; when it returns an error
\* (no down function, or a rollback failed) no migration older than the
\* failing one was rolled back.
C27_MigrateDownToTarget ==
    mig.last.op = "MigrateDownTo" =>
        /\ mig.last.err = NoError =>
              /\ GetCurrentVersion(mig.applied) <= mig.last.arg
              /\ mig.last.result[1].CurrentVersion <= mig.last.arg
              /\ \A v \in RolledBack : v > mig.last.arg
              /\ \A i \in 1..Len(RanVersions) : RanVersions[i] > mig.last.arg
        /\ mig.last.err # NoError =>
              \A v \in RolledBack :
                 \A f \in SetOf(mig.applied) :
                    (/\ f > mig.last.arg
                     /\ \E i \in 1..Len(mig.last.registered) :
                           mig.last.registered[i].Version = f) => v > f

\* the same for a migrator that has every applied migration registered
C27_RegisteredOnly ==
    (mig.last.op = "MigrateDownTo" /\ AllRegistered) =>
        /\ mig.last.err = NoError =>
              /\ GetCurrentVersion(mig.applied) <= mig.last.arg
              /\ mig.last.result[1].CurrentVersion <= mig.last.arg
              /\ \A v \in RolledBack : v > mig.last.arg
              /\ \A i \in 1..Len(RanVersions) : RanVersions[i] > mig.last.arg
        /\ mig.last.err # NoError =>
              \A v \in RolledBack :
                 \A f \in SetOf(mig.applied) : f > mig.last.arg => v > f

\* C28: the registered list never holds a version twice and is sorted by
\* ascending version; a Register with a version the list holds returns an
\* error and leaves the list as it was.
C28_RegisteredSortedUnique ==
    /\ \A i, j \in 1..Len(mig.migrations) :
          i < j => mig.migrations[i].Version < mig.migrations[j].Version
    /\ mig.last.op = "Register" =>
          /\ mig.last.err # NoError <=>
                \E i \in 1..Len(mig.last.registered) :
                   mig.last.registered[i].Version = mig.last.arg.Version
          /\ mig.last.err # NoError => mig.migrations = mig.last.registered
          /\ mig.last.err = NoError =>
                SetOf(mig.migrations) = SetOf(mig.last.registered) \cup {mig.last.arg}

\* C28 witness: a lower version registered after a higher one
C28_Witness ==
    /\ mig.last.op = "Register"
    /\ mig.last.err = NoError
    /\ Len(mig.last.registered) = 1
    /\ mig.last.arg.Version < mig.last.registered[1].Version
    /\ mig.migrations = <<mig.last.arg, mig.last.registered[1]>>


-----------------------------------------------------------------------------
(* Claims about the page result *)

\* C29: in every PageResult of GetPage, hasNext comes with a nextCursor
\* and hasPrev with a prevCursor, whatever the element type of the
\* destination.
C29_FlagsComeWithCursors ==
    req.kind # "none" =>
        /\ page.hasNext => page.nextCursor # NilPtr
        /\ page.hasPrev => page.prevCursor # NilPtr

\* the same for destinations whose elements are structs
C29_StructRowsOnly ==
    (req.kind # "none" /\ rowType.kind = "struct") =>
        /\ page.hasNext => page.nextCursor # NilPtr
        /\ page.hasPrev => page.prevCursor # NilPtr

\* C30: with withCount, totalCount is the number of rows that match the
\* caller's filter, whatever the cursor, the limit and the offset of the
\* request, and so the same on every page.
C30_TotalCountOfFilter ==
    (req.kind # "none" /\ req.withCount) => page.totalCount = Count(Base)

\* what the count query counts: the rows that match the WHERE of the
\* executed builder, the caller's filter and the cursor's comparison
C30_TotalCountOfExecutedWhere ==
    (req.kind # "none" /\ req.withCount) =>
        /\ page.totalCount = Count(req.q)
        /\ req.cursor[1].keyValue = NilValue => page.totalCount = Count(Base)

====
